---- MODULE Spec2Model ----
(***************************************************************************)
(* A model of the route planner (hamzzy/route-api, package planner):       *)
(*   - the fuel-stop planner, HybridFuelOptimizationService                *)
(*     (services/hybrid_fuel_optimization.py);                             *)
(*   - the geocoding and routing clients with their caches                 *)
(*     (services/geocoding.py, services/routing.py, services/base.py);     *)
(*   - the route-plan orchestration (RoutePlanningService.plan_route and   *)
(*     RoutePlanView.post, views.py).                                      *)
(*                                                                         *)
(* Numbers.  Python floats are modelled in fixed point:                    *)
(*   coordinates   in millidegrees,                                        *)
(*   angles        in microradians (Scale = 10^6 per radian),              *)
(*   distances     in thousandths of a mile,                               *)
(*   fuel          in thousandths of a gallon,                             *)
(*   prices, costs in thousandths of a dollar.                             *)
(* TLC integers are 32 bits wide, so products of two scaled numbers are    *)
(* computed in halves (MulFx).                                             *)
(***************************************************************************)
EXTENDS Integers, Sequences, FiniteSets, TLC

(***************************************************************************)
(* Fixed-point arithmetic.  The numeric primitives are functions on Int:   *)
(* a function is applied to the value of its argument, as Python applies   *)
(* math.sin to a float.                                                    *)
(***************************************************************************)
Kilo == 10 * 100
Scale == Kilo * Kilo

Abs(x) == IF x < 0 THEN -x ELSE x

Sign(x) == IF x < 0 THEN -1 ELSE 1

\* a * b / Scale for 0 <= a, b < 2^15 * Kilo, without overflowing 32 bits
MulNat[a \in Nat, b \in Nat] ==
    LET ah == a \div Kilo
        al == a % Kilo
        bh == b \div Kilo
        bl == b % Kilo
    IN  ah * bh + (ah * bl + al * bh + (al * bl) \div Kilo) \div Kilo

\* the product of two fixed-point numbers (Python's float *)
MulFx[a \in Int, b \in Int] == Sign(a) * Sign(b) * MulNat[Abs(a), Abs(b)]

\* a / 2
HalfFx[a \in Int] == Sign(a) * (Abs(a) \div 2)

\* pi and pi/2 in microradians
PiFx == 3141 * Kilo + 593
HalfPiFx == 1570 * Kilo + 796

\* math.radians: millidegrees to microradians: x * pi/180 = x * 17.4533 urad
Radians[mdeg \in Int] ==
    Sign(mdeg) * (Abs(mdeg) * 17 + (Abs(mdeg) * 4533) \div (10 * Kilo))

\* The Taylor series of the sine, x - x^3/3! + x^5/5! - ..., summed from the
\* term `term` of odd degree k - 2 on: 0 <= x <= pi/2, x2 = x * x.
SinSeries[x2 \in Nat, term \in Nat, k \in Nat] ==
    IF term = 0 \/ k > 15 THEN 0
    ELSE term - SinSeries[x2, MulNat[term, x2] \div (k * (k - 1)), k + 2]

\* math.sin on [-2 pi, 2 pi]
SinFx[x \in Int] ==
    LET ax == Abs(x)
        r == IF ax > PiFx THEN ax - PiFx ELSE ax
        q == IF r > HalfPiFx THEN PiFx - r ELSE r
        s == SinSeries[MulNat[q, q], q, 3]
        v == IF s > Scale THEN Scale ELSE s
    IN  Sign(x) * (IF ax > PiFx THEN -v ELSE v)

\* math.cos
CosFx[x \in Int] == SinFx[HalfPiFx - Abs(x)]

\* math.sqrt on [0, 1]: the smallest r in lo..hi with r * r >= a
SqrtSearch[a \in Nat, lo \in Nat, hi \in Nat] ==
    IF lo >= hi THEN lo
    ELSE IF MulNat[(lo + hi) \div 2, (lo + hi) \div 2] >= a
         THEN SqrtSearch[a, lo, (lo + hi) \div 2]
         ELSE SqrtSearch[a, (lo + hi) \div 2 + 1, hi]

SqrtFx[a \in Nat] == SqrtSearch[a, 0, Scale]

\* math.asin on [0, 1]: the largest angle t in lo..hi with sin t <= y
AsinSearch[y \in Nat, lo \in Nat, hi \in Nat] ==
    IF lo >= hi THEN lo
    ELSE IF SinFx[(lo + hi + 1) \div 2] <= y
         THEN AsinSearch[y, (lo + hi + 1) \div 2, hi]
         ELSE AsinSearch[y, lo, (lo + hi + 1) \div 2 - 1]

AsinFx[y \in Nat] == IF y >= Scale THEN HalfPiFx ELSE AsinSearch[y, 0, HalfPiFx]

\* the haversine term a = sin^2(dlat/2) + cos(lat1) cos(lat2) sin^2(dlon/2)
HaversineA[lat1 \in Int, lon1 \in Int, lat2 \in Int, lon2 \in Int] ==
    MulFx[SinFx[HalfFx[lat2 - lat1]], SinFx[HalfFx[lat2 - lat1]]]
      + MulFx[MulFx[CosFx[lat1], CosFx[lat2]],
              MulFx[SinFx[HalfFx[lon2 - lon1]], SinFx[HalfFx[lon2 - lon1]]]]

\* c * r: microradians times the radius, in thousandths of a mile
ArcMiles[c \in Nat, r \in Nat] == (c \div Kilo) * r + ((c % Kilo) * r) \div Kilo

(***************************************************************************)
(* HybridFuelOptimizationService: geometry                                 *)
(***************************************************************************)
\* Radius of earth in miles
EarthRadius == 3959

\* as calculate_distance, with the cosine of the first latitude for both
DistanceByFirstLatitude(point1, point2) ==
    LET lat1 == Radians[point1[1]]
        dlat == Radians[point2[1]] - lat1
        dlon == Radians[point2[2]] - Radians[point1[2]]
    IN  ArcMiles[2 * AsinFx[SqrtFx[
            MulFx[SinFx[HalfFx[dlat]], SinFx[HalfFx[dlat]]]
              + MulFx[MulFx[CosFx[lat1], CosFx[lat1]],
                      MulFx[SinFx[HalfFx[dlon]], SinFx[HalfFx[dlon]]]]]],
                 EarthRadius]

\* calculate_distance: the haversine formula; points are <<lat, lon>> in
\* millidegrees, the result is in thousandths of a mile
calculate_distance(point1, point2) ==
    ArcMiles[2 * AsinFx[SqrtFx[HaversineA[Radians[point1[1]], Radians[point1[2]],
                                          Radians[point2[1]], Radians[point2[2]]]]],
             EarthRadius]

\* interpolate_point: latitude and longitude interpolated independently;
\* ratio is a fixed-point number in [0, 1]
interpolate_point(start, end, ratio) ==
    << start[1] + MulFx[end[1] - start[1], ratio],
       start[2] + MulFx[end[2] - start[2], ratio] >>

(***************************************************************************)
(* HybridFuelOptimizationService.find_optimal_fuel_stops                   *)
(***************************************************************************)
\* round(x, 2) of a number in thousandths: the nearest hundredth, ties to even
Round2[x \in Int] ==
    LET q == Abs(x) \div 10
        r == Abs(x) % 10
        up == r > 5 \/ (r = 5 /\ q % 2 = 1)
    IN  Sign(x) * 10 * (IF up THEN q + 1 ELSE q)

\* math.ceil(a / b), b # 0
CeilDiv(a, b) == -((-a) \div b)

\* FuelStation.objects.all().order_by('retail_price'): insertion of one row
\* into rows already in ascending price order
RECURSIVE InsertByPrice(_, _)
InsertByPrice(row, sorted) ==
    IF sorted = << >> THEN << row >>
    ELSE IF row.retail_price < Head(sorted).retail_price THEN << row >> \o sorted
    ELSE << Head(sorted) >> \o InsertByPrice(row, Tail(sorted))

RECURSIVE OrderByRetailPrice(_)
OrderByRetailPrice(rows) ==
    IF rows = << >> THEN << >>
    ELSE InsertByPrice(Head(rows), OrderByRetailPrice(Tail(rows)))

\* the slice [:10] of the query
QueryLimit == 10

\* (mutation of RealStations: the order_by forgotten)
RealStationsUnordered(rows) ==
    SubSeq(rows, 1, IF Len(rows) < QueryLimit THEN Len(rows) ELSE QueryLimit)

\* real_stations = FuelStation.objects.all().order_by('retail_price')[:10]
RealStations(rows) ==
    LET ordered == OrderByRetailPrice(rows)
    IN  SubSeq(ordered, 1, IF Len(ordered) < QueryLimit THEN Len(ordered) ELSE QueryLimit)

\* base_price = 3.50 and price_variation = 0.5, in thousandths of a dollar
DefaultBasePrice == 3500
PriceVariation == 500

BasePrice(real_stations) ==
    IF real_stations # << >> THEN real_stations[1].retail_price ELSE DefaultBasePrice

\* base_price + (price_variation * (0.5 - (i % 3) * 0.2))
SyntheticPrice(base_price, i) ==
    base_price + (PriceVariation * (500 - (i % 3) * 200)) \div Kilo

\* the price of stop i (0-based): a real station's price or the synthetic one
FuelPrice(real_stations, i) ==
    IF real_stations # << >> /\ i < Len(real_stations)
    THEN real_stations[i + 1].retail_price
    ELSE SyntheticPrice(BasePrice(real_stations), i)

\* station_name: the real station's name, or 0 for the synthetic "Fuel Stop i+1"
StationName(real_stations, i) ==
    IF real_stations # << >> /\ i < Len(real_stations)
    THEN real_stations[i + 1].name
    ELSE 0

\* ratio = (i + 1) / (stops_needed + 1)
StopRatio(i, stops_needed) == ((i + 1) * Scale) \div (stops_needed + 1)

\* fuel_needed * fuel_price, both in thousandths
FuelCost[fuel_needed \in Int, fuel_price \in Int] ==
    Sign(fuel_needed) * ((Abs(fuel_needed) \div Kilo) * fuel_price
                           + ((Abs(fuel_needed) % Kilo) * fuel_price) \div Kilo)

\* stop_coords = self.interpolate_point(start_coords, end_coords, ratio)
StopCoords(i, stops_needed, start, end) ==
    interpolate_point(start, end, StopRatio(i, stops_needed))

\* distance_from_prev / self.mpg, mpg # 0
FuelNeeded[distance_from_prev \in Int, mpgv \in Int] == distance_from_prev \div mpgv

\* the entry appended to fuel_stops by iteration i of the loop
FuelStopAt(i, stops_needed, start, end, current, mpgv, real) ==
    [ name |-> StationName(real, i),
      latitude |-> StopCoords(i, stops_needed, start, end)[1],
      longitude |-> StopCoords(i, stops_needed, start, end)[2],
      retail_price |-> FuelPrice(real, i),
      distance_from_previous |->
          calculate_distance(current, StopCoords(i, stops_needed, start, end)),
      fuel_needed |->
          FuelNeeded[calculate_distance(current,
                                        StopCoords(i, stops_needed, start, end)),
                     mpgv],
      cost |->
          FuelCost[FuelNeeded[calculate_distance(current,
                                  StopCoords(i, stops_needed, start, end)), mpgv],
                   FuelPrice(real, i)] ]

RECURSIVE SumOf(_, _)
SumOf(stops, field) ==
    IF stops = << >> THEN 0 ELSE Head(stops)[field] + SumOf(Tail(stops), field)

NoSummary ==
    [ total_distance_miles |-> 0, total_fuel_gallons |-> 0, total_cost |-> 0,
      number_of_stops |-> 0 ]

\* the call raised ZeroDivisionError
ZeroDivisionError == [ status |-> "ZeroDivisionError", fuel_stops |-> << >>,
                       summary |-> NoSummary ]

\* the call has not returned
NoPlan == [ status |-> "none", fuel_stops |-> << >>, summary |-> NoSummary ]

\* (mutation of StopsNeeded: the "- 1" forgotten)
StopsNeededOffByOne(total, max_rangev) == CeilDiv(total, max_rangev)

\* stops_needed = math.ceil(total_distance / self.max_range) - 1
StopsNeeded(total, max_rangev) == CeilDiv(total, max_rangev) - 1

\* (mutation of WithinRange: the early return taken only for a zero distance)
WithinRangeOnlyAtZero(total, max_rangev) == total <= 0 /\ total <= max_rangev

\* if total_distance <= self.max_range: no stops needed
WithinRange(total, max_rangev) == total <= max_rangev

\* the plan returned when no stops are needed
DirectPlan(total, mpgv) ==
    [ status |-> "ok", fuel_stops |-> << >>,
      summary |-> [ total_distance_miles |-> Round2[total],
                    total_fuel_gallons |-> Round2[total \div mpgv],
                    total_cost |-> 0,
                    number_of_stops |-> 0 ] ]

\* the plan returned after the loop
StopsPlan(total, stops, cost_sum) ==
    [ status |-> "ok", fuel_stops |-> stops,
      summary |-> [ total_distance_miles |-> Round2[total],
                    total_fuel_gallons |-> Round2[SumOf(stops, "fuel_needed")],
                    total_cost |-> Round2[cost_sum],
                    number_of_stops |-> Len(stops) ] ]

(***************************************************************************)
(* Texts.  A Python str is a sequence of one-character strings.            *)
(***************************************************************************)
UpperCase == << "A", "B", "C", "D", "E", "F", "G", "H", "I", "J", "K", "L", "M",
                "N", "O", "P", "Q", "R", "S", "T", "U", "V", "W", "X", "Y", "Z" >>
LowerCase == << "a", "b", "c", "d", "e", "f", "g", "h", "i", "j", "k", "l", "m",
                "n", "o", "p", "q", "r", "s", "t", "u", "v", "w", "x", "y", "z" >>
Digits == << "0", "1", "2", "3", "4", "5", "6", "7", "8", "9" >>

\* str.lower, one character
LowerChar(c) ==
    IF \E i \in 1..Len(UpperCase) : UpperCase[i] = c
    THEN LowerCase[CHOOSE i \in 1..Len(UpperCase) : UpperCase[i] = c]
    ELSE c

\* str.lower
Lower(t) == [ i \in 1..Len(t) |-> LowerChar(t[i]) ]

\* str.replace(" ", "_")
ReplaceSpaces(t) == [ i \in 1..Len(t) |-> IF t[i] = " " THEN "_" ELSE t[i] ]

\* str.strip: the text without its leading and trailing spaces
Strip(t) ==
    LET inked == { i \in 1..Len(t) : t[i] # " " }
    IN  IF inked = {} THEN << >>
        ELSE SubSeq(t, CHOOSE i \in inked : \A j \in inked : i <= j,
                       CHOOSE i \in inked : \A j \in inked : i >= j)

\* str.split(','): the parts between the commas
RECURSIVE SplitFrom(_, _, _)
SplitFrom(t, i, part) ==
    IF i > Len(t) THEN << part >>
    ELSE IF t[i] = "," THEN << part >> \o SplitFrom(t, i + 1, << >>)
    ELSE SplitFrom(t, i + 1, Append(part, t[i]))

Split(t) == SplitFrom(t, 1, << >>)

IsDigit(c) == \E i \in 1..Len(Digits) : Digits[i] = c

DigitValue(c) == (CHOOSE i \in 1..Len(Digits) : Digits[i] = c) - 1

Unsigned(t) == IF t # << >> /\ Head(t) \in { "-", "+" } THEN Tail(t) ELSE t

\* float(t) does not raise ValueError: an optional sign, digits and at most
\* one point (the decimal notation; exponents, "inf" and "nan" are not modelled)
IsFloat(t) ==
    LET u == Unsigned(Strip(t))
    IN  /\ \A i \in 1..Len(u) : IsDigit(u[i]) \/ u[i] = "."
        /\ Cardinality({ i \in 1..Len(u) : u[i] = "." }) <= 1
        /\ \E i \in 1..Len(u) : IsDigit(u[i])

\* the digits ds read as a number
RECURSIVE DigitsValue(_)
DigitsValue(ds) ==
    IF ds = << >> THEN 0
    ELSE DigitsValue(SubSeq(ds, 1, Len(ds) - 1)) * 10 + DigitValue(ds[Len(ds)])

\* float(t), in thousandths
FloatValue(t) ==
    LET s == Strip(t)
        u == Unsigned(s)
        dots == { i \in 1..Len(u) : u[i] = "." }
        dot == IF dots = {} THEN Len(u) + 1 ELSE CHOOSE i \in dots : TRUE
        whole == SubSeq(u, 1, dot - 1)
        frac == SubSeq(SubSeq(u, dot + 1, Len(u)) \o << "0", "0", "0" >>, 1, 3)
        v == DigitsValue(whole) * Kilo + DigitsValue(frac)
    IN  IF s # << >> /\ Head(s) = "-" THEN -v ELSE v

(***************************************************************************)
(* The cache backend (django.core.cache) behind BaseService                *)
(***************************************************************************)
\* an optional value: << >> is None, << v >> is the value v
None == << >>
Some(v) == << v >>

VARIABLES
    cache_ok        \* the cache backend answers: when it does not, cache.get
                    \* and cache.set raise

\* cache.get(cache_key) or cache.set(cache_key, ...) raises
CacheRaises == ~cache_ok

\* (mutation of get_from_cache: the entry is never found)
GetFromCacheAlwaysMiss(c, cache_key) == None

\* (mutation of get_from_cache: the entry is returned though the backend
\* does not answer)
GetFromCacheThroughOutage(c, cache_key) ==
    IF cache_key \in DOMAIN c THEN Some(c[cache_key]) ELSE None

\* BaseService.get_from_cache: cache.get(cache_key), None when it raises
get_from_cache(c, cache_key) ==
    IF CacheRaises THEN None
    ELSE IF cache_key \in DOMAIN c THEN Some(c[cache_key]) ELSE None

\* BaseService.set_cache: cache.set(cache_key, data, ttl), nothing written
\* when it raises
set_cache(c, cache_key, data) ==
    IF CacheRaises THEN c
    ELSE [ k \in DOMAIN c \cup { cache_key } |->
             IF k = cache_key THEN data ELSE c[k] ]

\* the entry of cache_key expires (its TTL has passed) or is evicted
Without(c, cache_key) == [ k \in DOMAIN c \ { cache_key } |-> c[k] ]

(***************************************************************************)
(* The planner as a state machine: a service is constructed from the       *)
(* settings, then find_optimal_fuel_stops is called once and runs its loop *)
(* one iteration at a time.                                                *)
(***************************************************************************)
VARIABLES
    start_coords,   \* the call's origin, <<lat, lon>>
    end_coords,     \* the call's destination
    max_range,      \* self.max_range = settings.VEHICLE_MAX_RANGE
    mpg,            \* self.mpg = settings.VEHICLE_MPG
    stations,       \* the FuelStation table, rows in insertion order
    fpc,            \* where the call is: "call", "loop", "done", "raised"
    total_distance, \* the locals of find_optimal_fuel_stops ...
    stops_needed,
    real_stations,
    loop_i,         \* i
    current_pos,
    fuel_stops,
    total_cost,
    plan            \* what the call returned or raised; NoPlan before that

plannerInputs == << start_coords, end_coords, max_range, mpg, stations >>

plannerLocals == << total_distance, stops_needed, real_stations, loop_i,
                    current_pos, fuel_stops, total_cost >>

plannerVars == << plannerInputs, fpc, plannerLocals, plan >>

(***************************************************************************)
(* The state of the web service: the requests in progress, the cache and   *)
(* what the run has seen so far.                                           *)
(***************************************************************************)
VARIABLES
    req,            \* per worker thread, the request it runs: where it is in
                    \* RoutePlanView.post and the locals of plan_route
    geocode_cache,  \* the cache entries under "geocode:..."
    route_cache,    \* the cache entries under "route:..."
    plan_cache,     \* the cache entries under "route_plan:..."
    live_geocode,   \* per (address, city, state) whose live fetch succeeded
                    \* and whose entry has not expired since: the value fetched
    live_route,     \* the same per (start_coords, end_coords) of get_route
    failure_log,    \* the failures answered so far: the cause and the response
    arrivals        \* the number of requests received

routeVars == << req, geocode_cache, route_cache, plan_cache, live_geocode,
                live_route, failure_log, arrivals, cache_ok >>

\* the worker threads of the server: it serves one request at a time
Workers == { 1 }

EmptyCache == [ k \in { } |-> None ]

\* a worker before its first request
IdleRequest ==
    [ pc |-> "idle", start |-> << >>, finish |-> << >>,
      start_coords |-> None, end_coords |-> None, route_data |-> None,
      response |-> None, cause |-> "",
      nominatim_requests |-> 0, osrm_requests |-> 0,
      route_cache_reads |-> 0, route_cache_writes |-> 0,
      geocode_cache_writes |-> 0, plan_cache_writes |-> 0,
      osrm_response |-> None ]

\* the server after start-up: nothing received, nothing cached
ServerStarted ==
    /\ req = [ w \in Workers |-> IdleRequest ]
    /\ geocode_cache = EmptyCache
    /\ route_cache = EmptyCache
    /\ plan_cache = EmptyCache
    /\ live_geocode = EmptyCache
    /\ live_route = EmptyCache
    /\ failure_log = { }
    /\ cache_ok = TRUE
    /\ arrivals = 0

(***************************************************************************)
(* The state of a batch run of geocode_fuel_stations, and of a single call *)
(* of a function of the library.                                           *)
(***************************************************************************)
VARIABLES
    batch_pc,            \* where the run is: "call", "loop", "returned"
    batch_stations,      \* the argument: the stations, in submission order
    stations_to_geocode, \* the locals of geocode_fuel_stations ...
    batch_i,             \* i
    geocoded_stations,
    clock,               \* the time since the run began, in tenths of a second
    timeline,            \* the lookups answered by the cache, the requests to
                         \* the provider and the delays of the run, with
                         \* the time of each
    call,                \* a call of a function: its name and arguments
    returned             \* what the call returned, None before it returns

batchVars == << batch_pc, batch_stations, stations_to_geocode, batch_i,
                geocoded_stations, clock, timeline >>

callVars == << call, returned >>

VARIABLES
    command_pc,      \* geocode_stations: "call", "loop" or "done"
    limit,           \* options['limit']
    batch_size,      \* options['batch_size']
    store,           \* the FuelStation table, in the order of its queries
    total_stations,  \* stations_to_geocode.count()
    offset,          \* the i of the loop over the batches
    submitted        \* the stations given to geocode_fuel_stations so far

commandVars == << command_pc, limit, batch_size, store, total_stations,
                  offset, submitted >>

CommandAtRest ==
    /\ command_pc = "call"
    /\ limit = 0
    /\ batch_size = 0
    /\ store = << >>
    /\ total_stations = 0
    /\ offset = 0
    /\ submitted = << >>

asideVars == << batchVars, callVars, commandVars >>

NoCall == [ fn |-> "", args |-> << >> ]

\* no batch is run and no function is called
AsideAtRest ==
    /\ batch_pc = "call"
    /\ batch_stations = << >>
    /\ stations_to_geocode = << >>
    /\ batch_i = 0
    /\ geocoded_stations = << >>
    /\ clock = 0
    /\ timeline = << >>
    /\ call = NoCall
    /\ returned = None
    /\ CommandAtRest

\* New York, a town near it, Chicago, Los Angeles, Oslo, Sydney
NYC == << 40700, -74000 >>
NEAR == << 41000, -75000 >>
CHI == << 41850, -87650 >>
LA == << 34050, -118250 >>
OSL == << 59900, 10750 >>
SYD == << -33870, 151210 >>

Points == { NYC, NEAR, CHI, LA, OSL, SYD }

\* the largest FuelStation table of the model
MaxCatalog == 12

\* row k of the table: distinct prices between 3.000 and 3.444, not in order
StationRow(k) == [ name |-> k, retail_price |-> 3000 + ((k * 5) % 13) * 37 ]

Catalog(n) == [ k \in 1..n |-> StationRow(k) ]

Catalogs == { Catalog(n) : n \in { 0, 2, MaxCatalog } }

\* the settings: <<VEHICLE_MAX_RANGE in miles, VEHICLE_MPG>>
ValidSettings == { << 500, 10 >>, << 300, 12 >> }
InvalidSettings == { << 0, 10 >>, << -500, 10 >>, << 500, 0 >>, << 500, -10 >>,
                     << 0, 0 >>, << -500, 0 >> }

InitPlanner ==
    /\ start_coords \in Points
    /\ end_coords \in Points
    /\ \E cfg \in ValidSettings \cup InvalidSettings :
          /\ max_range = cfg[1] * Kilo
          /\ mpg = cfg[2]
    /\ stations \in Catalogs
    /\ fpc = "call"
    /\ total_distance = 0
    /\ stops_needed = 0
    /\ real_stations = << >>
    /\ loop_i = 0
    /\ current_pos = start_coords
    /\ fuel_stops = << >>
    /\ total_cost = 0
    /\ plan = NoPlan
    /\ ServerStarted
    /\ AsideAtRest

\* lines 58-92: the distance, the early return, stops_needed and the query
FindStart ==
    /\ fpc = "call"
    /\ total_distance' = calculate_distance(start_coords, end_coords)
    /\ IF WithinRange(total_distance', max_range)
       THEN /\ IF mpg = 0
               THEN fpc' = "raised" /\ plan' = ZeroDivisionError
               ELSE fpc' = "done" /\ plan' = DirectPlan(total_distance', mpg)
            /\ UNCHANGED << stops_needed, real_stations >>
       ELSE IF max_range = 0
       THEN /\ fpc' = "raised" /\ plan' = ZeroDivisionError
            /\ UNCHANGED << stops_needed, real_stations >>
       ELSE /\ stops_needed' = StopsNeeded(total_distance', max_range)
            /\ real_stations' = RealStations(stations)
            /\ fpc' = "loop"
            /\ plan' = plan
    /\ UNCHANGED << plannerInputs, loop_i, current_pos, fuel_stops, total_cost >>
    /\ UNCHANGED << routeVars, asideVars >>

\* lines 94-139: one iteration of the loop over range(stops_needed)
FuelStopIter ==
    /\ fpc = "loop"
    /\ loop_i < stops_needed
    /\ IF mpg = 0
       THEN /\ fpc' = "raised" /\ plan' = ZeroDivisionError
            /\ UNCHANGED << loop_i, current_pos, fuel_stops, total_cost >>
       ELSE /\ fuel_stops' = Append(fuel_stops,
                 FuelStopAt(loop_i, stops_needed, start_coords, end_coords,
                            current_pos, mpg, real_stations))
            /\ total_cost' = total_cost + fuel_stops'[Len(fuel_stops')].cost
            /\ current_pos' = << fuel_stops'[Len(fuel_stops')].latitude,
                                 fuel_stops'[Len(fuel_stops')].longitude >>
            /\ loop_i' = loop_i + 1
            /\ UNCHANGED << fpc, plan >>
    /\ UNCHANGED << plannerInputs, total_distance, stops_needed, real_stations >>
    /\ UNCHANGED << routeVars, asideVars >>

\* lines 141-152: the totals and the return
FindReturn ==
    /\ fpc = "loop"
    /\ loop_i >= stops_needed
    /\ plan' = StopsPlan(total_distance, fuel_stops, total_cost)
    /\ fpc' = "done"
    /\ UNCHANGED << plannerInputs, plannerLocals >>
    /\ UNCHANGED << routeVars, asideVars >>

NextPlanner == FindStart \/ FuelStopIter \/ FindReturn

vars == << plannerVars, routeVars, asideVars >>

SpecPlanner == InitPlanner /\ [][NextPlanner]_vars

(***************************************************************************)
(* Properties of the planner (checked under SpecPlanner)                   *)
(***************************************************************************)
\* the call has returned a plan
Planned == plan.status = "ok"

\* the service was constructed with a positive range and a positive mpg
ValidConfig == max_range > 0 /\ mpg > 0

\* the great-circle distance between the call's endpoints
TotalDistance == calculate_distance(start_coords, end_coords)

\* the last position before the destination: the last stop, or the origin
LastPosition ==
    IF plan.fuel_stops = << >> THEN start_coords
    ELSE LET last == plan.fuel_stops[Len(plan.fuel_stops)]
         IN  << last.latitude, last.longitude >>

\* the leg from the last stop to the destination
FinalLeg == calculate_distance(LastPosition, end_coords)

\* Distances agree "within rounding tolerance" when they differ by at most
\* five miles: the fixed-point haversine is accurate to about one mile a leg.
RoundingTolerance == 5 * Kilo

\* C1: for totalDistance > 0 and maxRange > 0 the call reports
\* number_of_stops = max(0, ceil(totalDistance / maxRange) - 1), that is the n
\* with n * maxRange < totalDistance <= (n + 1) * maxRange, and fuel_stops
\* has n entries.  (mpg # 0: with mpg = 0 the call raises, see C6.)
C1_StopCount ==
    (fpc \in {"done", "raised"} /\ TotalDistance > 0 /\ max_range > 0 /\ mpg # 0) =>
        /\ Planned
        /\ plan.summary.number_of_stops >= 0
        /\ plan.summary.number_of_stops * max_range < TotalDistance
        /\ TotalDistance <= (plan.summary.number_of_stops + 1) * max_range
        /\ Len(plan.fuel_stops) = plan.summary.number_of_stops

\* C1's case: a plan with several stops, and one with none
C1_Witness ==
    /\ Planned /\ max_range > 0 /\ TotalDistance > 0
    /\ plan.summary.number_of_stops >= 2

\* C2: whenever totalDistance <= maxRange (a zero distance included) the call
\* returns no stops, total cost 0 and total fuel totalDistance / mpg (reported
\* rounded to two decimals).
C2_WithinRange ==
    (fpc \in {"done", "raised"} /\ TotalDistance <= max_range /\ mpg # 0) =>
        /\ Planned
        /\ plan.fuel_stops = << >>
        /\ plan.summary.number_of_stops = 0
        /\ plan.summary.total_cost = 0
        /\ Abs(plan.summary.total_fuel_gallons * mpg - TotalDistance) <= 6 * Abs(mpg)

\* C2's case: a non-zero distance within the range, planned
C2_Witness ==
    /\ Planned /\ start_coords # end_coords /\ TotalDistance <= max_range
    /\ plan.summary.total_fuel_gallons > 0

\* C3 (as claimed): for a plan with at least one stop, the stops'
\* distance_from_previous plus the final leg add up to the total distance,
\* within rounding tolerance (stated for valid configurations).
C3_LegsSumToTotal ==
    (Planned /\ ValidConfig /\ Len(plan.fuel_stops) >= 1) =>
        Abs(SumOf(plan.fuel_stops, "distance_from_previous") + FinalLeg
              - TotalDistance) <= RoundingTolerance

\* C4 (as claimed): in every plan each stop's distance_from_previous is
\* non-negative and these distances add up to the total route distance,
\* within rounding tolerance (stated for valid configurations and plans with
\* at least one stop).
C4_StopDistancesSumToTotal ==
    (Planned /\ ValidConfig /\ Len(plan.fuel_stops) >= 1) =>
        /\ \A i \in 1..Len(plan.fuel_stops) :
              plan.fuel_stops[i].distance_from_previous >= 0
        /\ Abs(SumOf(plan.fuel_stops, "distance_from_previous") - TotalDistance)
              <= RoundingTolerance

\* the price of the i-th cheapest row (0-based) of the FuelStation table
IthCheapest(i) ==
    LET k == CHOOSE k \in 1..Len(stations) :
                 Cardinality({ j \in 1..Len(stations) :
                     stations[j].retail_price < stations[k].retail_price }) = i
    IN  stations[k].retail_price

\* base + 0.5 * (0.5 - (i mod 3) * 0.2), base the cheapest price or 3.50
ClaimedFallbackPrice(i) ==
    (IF Len(stations) > 0 THEN IthCheapest(0) ELSE 3500)
      + (CASE i % 3 = 0 -> 250 [] i % 3 = 1 -> 150 [] OTHER -> 50)

\* cost = fuel_needed * price, to the thousandth of a dollar
CostIsFuelTimesPrice(stop) ==
    LET prod == Abs(stop.fuel_needed) * stop.retail_price
    IN  /\ Abs(stop.cost) * Kilo <= prod
        /\ prod < (Abs(stop.cost) + 1) * Kilo
        /\ (stop.cost < 0) => (stop.fuel_needed < 0)

\* C5 (as claimed): stop i is priced at the i-th cheapest catalog entry
\* whenever the catalog has more than i entries, else at the fallback price;
\* its cost is fuel_needed times that price (stated for valid configurations).
C5_PriceAssignmentAsClaimed ==
    (Planned /\ ValidConfig) =>
        \A n \in 1..Len(plan.fuel_stops) :
            LET i == n - 1
                stop == plan.fuel_stops[n]
            IN  /\ stop.retail_price =
                      IF Len(stations) > i THEN IthCheapest(i)
                      ELSE ClaimedFallbackPrice(i)
                /\ CostIsFuelTimesPrice(stop)

\* C5 (amended): only the 10 cheapest catalog entries are read: stop i is
\* priced at the i-th cheapest entry whenever i < 10 and the catalog has more
\* than i entries, else at the fallback price; its cost is fuel_needed times
\* that price.
C5_PriceAssignment ==
    Planned =>
        \A n \in 1..Len(plan.fuel_stops) :
            LET i == n - 1
                stop == plan.fuel_stops[n]
            IN  /\ stop.retail_price =
                      IF i < 10 /\ Len(stations) > i THEN IthCheapest(i)
                      ELSE ClaimedFallbackPrice(i)
                /\ CostIsFuelTimesPrice(stop)

\* C5's case: a plan with more than 10 stops over a catalog of more than 10
\* entries (stops priced from the catalog and stops priced by the fallback)
C5_Witness ==
    /\ Planned /\ Len(plan.fuel_stops) > 10 /\ Len(stations) > 10
    /\ plan.fuel_stops[1].cost > 0

\* C6 (as claimed): with maxRange or mpg zero or negative the call is
\* rejected and never returns a plan.
C6_InvalidConfigRejected ==
    (fpc \in {"done", "raised"} /\ (max_range <= 0 \/ mpg <= 0)) => ~Planned

(***************************************************************************)
(* GeocodingService.geocode_address and the geocoding provider             *)
(***************************************************************************)
GeocodePrefix == << "g", "e", "o", "c", "o", "d", "e", ":" >>

\* f"geocode:{address}:{city}:{state}".replace(" ", "_").lower()
GeocodeCacheKey(address, city, state) ==
    Lower(ReplaceSpaces(GeocodePrefix \o address \o << ":" >> \o city
                        \o << ":" >> \o state))

\* f"{address}, {city}, {state}, USA"
GeocodeQuery(address, city, state) ==
    address \o << ",", " " >> \o city \o << ",", " " >> \o state
            \o << ",", " ", "U", "S", "A" >>

\* the places the provider knows, with the texts it answers for them
Gazetteer ==
    { [ city |-> << "R", "y", "e" >>, state |-> << "N", "Y" >>,
        lat |-> << "4", "0", ".", "9", "8" >>,
        lon |-> << "-", "7", "3", ".", "6", "8" >> ],
      [ city |-> << "Z", "i", "o", "n" >>, state |-> << "I", "L" >>,
        lat |-> << "4", "2", ".", "4", "5" >>,
        lon |-> << "-", "8", "7", ".", "8", "3" >> ],
      [ city |-> << "R", "y", "e" >>,
        state |-> << "N", "Y", ":", "R", "y", "e" >>,
        lat |-> << "4", "0", ".", "9", "8" >>,
        lon |-> << "-", "7", "3", ".", "6", "8" >> ] }

\* the JSON list the provider answers for a query: its data do not change
\* during a run and it matches without regard to case
NominatimData(query) ==
    LET hits == { p \in Gazetteer :
                    Lower(GeocodeQuery(<< >>, p.city, p.state)) = Lower(query) }
    IN  IF hits = { } THEN << >>
        ELSE << [ lat |-> (CHOOSE p \in hits : TRUE).lat,
                  lon |-> (CHOOSE p \in hits : TRUE).lon ] >>

\* what a request to the provider can come to: no response at all (a
\* timeout, a connection error), a status other than 2xx, or the answer
NominatimResponses(query) ==
    { [ transport |-> "error", status |-> 0, data |-> << >> ],
      [ transport |-> "ok", status |-> 503, data |-> << >> ],
      [ transport |-> "ok", status |-> 200, data |-> NominatimData(query) ] }

\* response.raise_for_status() raises
RaisesForStatus(status) == status < 200 \/ status >= 300

\* as GeocodeResult, but a failure is answered by the point (0, 0)
GeocodeResultOrOrigin(response) ==
    IF response.transport # "ok" \/ RaisesForStatus(response.status)
    THEN Some(<< 0, 0 >>)
    ELSE IF response.data # << >> /\ Len(response.data) > 0
    THEN Some(<< FloatValue(response.data[1].lat),
                 FloatValue(response.data[1].lon) >>)
    ELSE Some(<< 0, 0 >>)

\* lines 39-67: what geocode_address returns for a response
GeocodeResult(response) ==
    IF response.transport # "ok" \/ RaisesForStatus(response.status) THEN None
    ELSE IF response.data # << >> /\ Len(response.data) > 0
    THEN Some(<< FloatValue(response.data[1].lat),
                 FloatValue(response.data[1].lon) >>)
    ELSE None

\* as IsLiteral, for numbers written without a sign only
IsLiteralUnsigned(location) ==
    /\ Len(Split(location)) = 2
    /\ IsFloat(Split(location)[1]) /\ Unsigned(Strip(Split(location)[1])) = Strip(Split(location)[1])
    /\ IsFloat(Split(location)[2]) /\ Unsigned(Strip(Split(location)[2])) = Strip(Split(location)[2])

(***************************************************************************)
(* RoutePlanningService and the routing provider                           *)
(***************************************************************************)
\* lines 82-89: the text is a "lat,lon" literal (no ValueError is raised)
IsLiteral(location) ==
    /\ Len(Split(location)) = 2
    /\ IsFloat(Split(location)[1])
    /\ IsFloat(Split(location)[2])

LiteralCoords(location) ==
    << FloatValue(Split(location)[1]), FloatValue(Split(location)[2]) >>

\* lines 94-98: the text has a city part and a state part
IsAddress(location) == Len(Split(location)) >= 2

City(location) == Strip(Split(location)[1])
State(location) == Strip(Split(location)[2])

\* f"route:{start_lat}:{start_lon}:{end_lat}:{end_lon}": one text per number
RouteCacheKey(start, end) == << start[1], start[2], end[1], end[2] >>

\* the route the provider knows between two points
OsrmRoute(start, end) ==
    [ geometry |-> << start, end >>,
      distance |-> (Abs(end[1] - start[1]) + Abs(end[2] - start[2])) * 111,
      duration |-> (Abs(end[1] - start[1]) + Abs(end[2] - start[2])) * 4,
      legs |-> 1 ]

\* what a request to the provider can come to
OsrmResponses(start, end) ==
    { [ transport |-> "error", status |-> 0, code |-> "", routes |-> << >> ],
      [ transport |-> "ok", status |-> 503, code |-> "", routes |-> << >> ],
      [ transport |-> "ok", status |-> 200, code |-> "NoRoute", routes |-> << >> ],
      [ transport |-> "ok", status |-> 200, code |-> "Ok", routes |-> << >> ],
      [ transport |-> "ok", status |-> 200, code |-> "Ok",
        routes |-> << OsrmRoute(start, end) >> ] }

\* (mutation of RouteResult: the routes of an "Ok" response are not looked at)
RouteResultOfAnyOk(response) ==
    IF response.transport # "ok" \/ RaisesForStatus(response.status) THEN None
    ELSE IF response.code = "Ok"
    THEN Some([ geometry |-> << >>, distance |-> 0, duration |-> 0, legs |-> 0 ])
    ELSE None

\* lines 40-70: what get_route returns for a response
RouteResult(response) ==
    IF response.transport # "ok" \/ RaisesForStatus(response.status) THEN None
    ELSE IF response.code = "Ok" /\ response.routes # << >>
    THEN Some([ geometry |-> response.routes[1].geometry,
                distance |-> response.routes[1].distance,
                duration |-> response.routes[1].duration,
                legs |-> response.routes[1].legs ])
    ELSE None

\* (mutation of GeocodingFailed: only the start is looked at)
GeocodingFailedAtStart(start_c, end_c) == start_c = None

\* plan_route: not start_coords or not end_coords
GeocodingFailed(start_c, end_c) == start_c = None \/ end_c = None

(***************************************************************************)
(* RoutePlanView.post                                                      *)
(***************************************************************************)
\* "route_plan:" and the MD5 of f"{start}:{finish}"; the digest is taken to
\* be free of collisions, so the key is the digested text
PlanCacheKey(start, finish) == start \o << ":" >> \o finish

VehicleMaxRange == 500 * Kilo

\* number_of_stops of find_optimal_fuel_stops(start_coords, end_coords)
NumberOfStops(start, end) ==
    IF WithinRange(calculate_distance(start, end), VehicleMaxRange) THEN 0
    ELSE StopsNeeded(calculate_distance(start, end), VehicleMaxRange)

Ok200(data) == [ status |-> 200, error |-> "", data |-> Some(data) ]

\* the response to an exception raised outside the try of post
ServerError == [ status |-> 500, error |-> "Server Error (500)", data |-> None ]

\* the response to an exception caught by post
InternalServerError ==
    [ status |-> 500, error |-> "Internal server error", data |-> None ]

CouldNotPlan ==
    [ status |-> 400,
      error |-> "Could not plan route between the specified locations",
      data |-> None ]

\* the response of the view when plan_route returned None
Answered(r, cause) ==
    [ r EXCEPT !.pc = "done", !.response = Some(CouldNotPlan), !.cause = cause ]

(***************************************************************************)
(* The requests.  Each worker thread runs one request at a time; a step of *)
(* a request runs up to its next access to the cache or to a provider.     *)
(***************************************************************************)
\* "Rye, NY", "Zion, IL", a place the provider does not know, the point of
\* Zion as a literal, and a text with no comma
RyeNY == << "R", "y", "e", ",", " ", "N", "Y" >>
ZionIL == << "Z", "i", "o", "n", ",", " ", "I", "L" >>
OzZZ == << "O", "z", ",", " ", "Z", "Z" >>
ZionPoint == << "4", "2", ".", "4", "5", ",", "-", "8", "7", ".", "8", "3" >>
Rye == << "R", "y", "e" >>

\* the bodies of the requests of a run, << start, finish >>, as validated
RequestBodies ==
    { << RyeNY, ZionPoint >>, << ZionIL, RyeNY >>, << OzZZ, Rye >> }

\* two bodies whose texts "start:finish" are the same text
RyeNYRye == << "R", "y", "e", ",", " ", "N", "Y", ":", "R", "y", "e" >>
ZionILRye == << "Z", "i", "o", "n", ",", " ", "I", "L", ":", "R", "y", "e" >>

ColonBodies ==
    { << ZionIL, RyeNYRye \o << ",", " ", "N", "Y" >> >>,
      << ZionILRye \o << ",", " ", "N", "Y" >>, RyeNY >> }

\* the bodies of two requests made at the same time
PairBodies == RequestBodies \cup ColonBodies

Locations == { b[1] : b \in PairBodies } \cup { b[2] : b \in PairBodies }

\* the number of requests of a run
MaxRequests == 3

\* geocode_location on each text of the model, worked out once: whether the
\* text is a literal, else whether it has a city and a state and, with them,
\* the arguments, the cache key and the query of geocode_address and what
\* geocode_address returns for each response the provider can give
Located ==
    [ location \in Locations |->
        [ literal |-> IsLiteral(location),
          address |-> IsAddress(location),
          coords |-> IF IsLiteral(location)
                     THEN Some(LiteralCoords(location)) ELSE None,
          args |-> IF IsAddress(location)
                   THEN << << >>, City(location), State(location) >>
                   ELSE << >>,
          cache_key |-> IF IsAddress(location)
                        THEN GeocodeCacheKey(<< >>, City(location),
                                             State(location))
                        ELSE << >>,
          results |-> IF IsAddress(location)
                      THEN { GeocodeResult(response) :
                               response \in NominatimResponses(
                                   GeocodeQuery(<< >>, City(location),
                                                State(location))) }
                      ELSE { },
          found |-> IF IsAddress(location)
                    THEN GeocodeResult(
                           [ transport |-> "ok", status |-> 200,
                             data |-> NominatimData(
                                 GeocodeQuery(<< >>, City(location),
                                              State(location))) ])
                    ELSE None ] ]

\* the cache key of each triple of arguments of geocode_address
KeyOfArgs ==
    [ a \in { Located[l].args : l \in { x \in Locations : IsAddress(x) } } |->
        GeocodeCacheKey(a[1], a[2], a[3]) ]

\* the points a request of the model can be about
Coordinates ==
    { c[1] : c \in UNION { { Located[l].coords } \cup Located[l].results
                           : l \in Locations } \ { None } }

\* the planner on each pair of points, worked out once
FuelStops ==
    [ p \in Coordinates \X Coordinates |-> NumberOfStops(p[1], p[2]) ]

\* the body of the 200 response
ResponseData(r) ==
    [ start |-> r.start, finish |-> r.finish,
      start_coords |-> r.start_coords[1], end_coords |-> r.end_coords[1],
      geometry |-> r.route_data[1].geometry,
      distance_meters |-> r.route_data[1].distance,
      duration_seconds |-> r.route_data[1].duration,
      number_of_stops |-> FuelStops[<< r.start_coords[1], r.end_coords[1] >>] ]

\* the failures answered, with the request r as it is after a step
Logged(log, r) ==
    IF r.pc = "done" /\ r.response[1].status # 200
    THEN log \cup { [ cause |-> r.cause, response |-> r.response[1] ] }
    ELSE log

\* the text geocode_location is working on
LocationOf(r) ==
    IF r.pc \in { "geocode_start", "geocode_start_http" } THEN r.start
    ELSE r.finish

\* as GeocodeReturns, but a request that brought no coordinates is sent again
GeocodeReturnsRetrying(r, coords) ==
    IF coords = None /\ r.pc = "geocode_start_http"
    THEN [ r EXCEPT !.pc = "geocode_start" ]
    ELSE IF coords = None /\ r.pc = "geocode_finish_http"
    THEN [ r EXCEPT !.pc = "geocode_finish" ]
    ELSE IF r.pc \in { "geocode_start", "geocode_start_http" }
    THEN [ r EXCEPT !.start_coords = coords, !.pc = "geocode_finish" ]
    ELSE IF GeocodingFailed(r.start_coords, coords)
    THEN Answered([ r EXCEPT !.end_coords = coords ], "LocationNotFound")
    ELSE [ r EXCEPT !.end_coords = coords, !.pc = "get_route" ]

\* as GeocodeReturns, but the coordinates of the start are lost
GeocodeReturnsLosingStart(r, coords) ==
    IF r.pc \in { "geocode_start", "geocode_start_http" }
    THEN [ r EXCEPT !.start_coords = None, !.pc = "geocode_finish" ]
    ELSE IF GeocodingFailed(r.start_coords, coords)
    THEN Answered([ r EXCEPT !.end_coords = coords ], "LocationNotFound")
    ELSE [ r EXCEPT !.end_coords = coords, !.pc = "get_route" ]

\* geocode_location returns coords: plan_route goes on to the finish, or to
\* its check of both results and, from there, to get_route
GeocodeReturns(r, coords) ==
    IF r.pc \in { "geocode_start", "geocode_start_http" }
    THEN [ r EXCEPT !.start_coords = coords, !.pc = "geocode_finish" ]
    ELSE IF GeocodingFailed(r.start_coords, coords)
    THEN Answered([ r EXCEPT !.end_coords = coords ], "LocationNotFound")
    ELSE [ r EXCEPT !.end_coords = coords, !.pc = "get_route" ]

\* post, up to the lookup of the cached plan
Post(w, start, finish) ==
    /\ req[w].pc \in { "idle", "done" }
    /\ arrivals < MaxRequests
    /\ arrivals' = arrivals + 1
    /\ req' = [ req EXCEPT ![w] =
          IF CacheRaises
          THEN [ IdleRequest EXCEPT
                   !.pc = "done", !.start = start, !.finish = finish,
                   !.cause = "CacheError", !.response = Some(ServerError) ]
          ELSE IF get_from_cache(plan_cache, PlanCacheKey(start, finish)) # None
          THEN [ IdleRequest EXCEPT
                   !.pc = "done", !.start = start, !.finish = finish,
                   !.cause = "cached",
                   !.response = Some(Ok200(
                       plan_cache[PlanCacheKey(start, finish)])) ]
          ELSE [ IdleRequest EXCEPT
                   !.pc = "geocode_start", !.start = start,
                   !.finish = finish ] ]
    /\ failure_log' = Logged(failure_log, req'[w])
    /\ UNCHANGED << geocode_cache, route_cache, plan_cache, live_geocode,
                    live_route >>
    /\ UNCHANGED << plannerVars, cache_ok, asideVars >>

\* geocode_location, and geocode_address up to its request to the provider
GeocodeLocation(w) ==
    /\ req[w].pc \in { "geocode_start", "geocode_finish" }
    /\ req' = [ req EXCEPT ![w] =
          IF Located[LocationOf(@)].literal
          THEN GeocodeReturns(@, Located[LocationOf(@)].coords)
          ELSE IF ~Located[LocationOf(@)].address
          THEN GeocodeReturns(@, None)
          ELSE IF get_from_cache(geocode_cache,
                                 Located[LocationOf(@)].cache_key) # None
          THEN GeocodeReturns(@, get_from_cache(geocode_cache,
                                     Located[LocationOf(@)].cache_key))
          ELSE [ @ EXCEPT
                   !.pc = IF @ = "geocode_start" THEN "geocode_start_http"
                          ELSE "geocode_finish_http",
                   !.nominatim_requests = @ + 1 ] ]
    /\ failure_log' = Logged(failure_log, req'[w])
    /\ UNCHANGED << geocode_cache, route_cache, plan_cache, live_geocode,
                    live_route, arrivals >>
    /\ UNCHANGED << plannerVars, cache_ok, asideVars >>

\* the provider's response arrives with result as its outcome: the rest of
\* geocode_address
NominatimAnswers(w, result) ==
    /\ req[w].pc \in { "geocode_start_http", "geocode_finish_http" }
    /\ IF result # None
       THEN /\ geocode_cache' = set_cache(geocode_cache,
                   Located[LocationOf(req[w])].cache_key, result[1])
            /\ live_geocode' = set_cache(live_geocode,
                   Located[LocationOf(req[w])].args, result[1])
       ELSE UNCHANGED << geocode_cache, live_geocode >>
    /\ req' = [ req EXCEPT ![w] = GeocodeReturns(
          [ @ EXCEPT !.geocode_cache_writes =
                       IF result # None THEN @ + 1 ELSE @ ], result) ]
    /\ failure_log' = Logged(failure_log, req'[w])
    /\ UNCHANGED << route_cache, plan_cache, live_route, arrivals >>
    /\ UNCHANGED << plannerVars, cache_ok, asideVars >>

NominatimResponds(w) ==
    /\ req[w].pc \in { "geocode_start_http", "geocode_finish_http" }
    /\ \E result \in Located[LocationOf(req[w])].results :
          NominatimAnswers(w, result)

\* get_route, up to its request to the provider
GetRoute(w) ==
    /\ req[w].pc = "get_route"
    /\ req' = [ req EXCEPT ![w] =
          IF get_from_cache(route_cache,
                 RouteCacheKey(@.start_coords[1], @.end_coords[1])) # None
          THEN [ @ EXCEPT
                   !.route_data = get_from_cache(route_cache,
                       RouteCacheKey(req[w].start_coords[1],
                                     req[w].end_coords[1])),
                   !.route_cache_reads = @ + 1,
                   !.pc = "respond" ]
          ELSE [ @ EXCEPT
                   !.route_cache_reads = @ + 1,
                   !.osrm_requests = @ + 1,
                   !.pc = "get_route_http" ] ]
    /\ UNCHANGED << geocode_cache, route_cache, plan_cache, live_geocode,
                    live_route, failure_log, arrivals >>
    /\ UNCHANGED << plannerVars, cache_ok, asideVars >>

\* the provider's response arrives: the rest of get_route, and of plan_route
OsrmAnswers(w, response) ==
    /\ req[w].pc = "get_route_http"
    /\ IF RouteResult(response) # None
       THEN /\ route_cache' = set_cache(route_cache,
                   RouteCacheKey(req[w].start_coords[1],
                                 req[w].end_coords[1]),
                   RouteResult(response)[1])
            /\ live_route' = set_cache(live_route,
                   << req[w].start_coords[1], req[w].end_coords[1] >>,
                   RouteResult(response)[1])
            /\ req' = [ req EXCEPT ![w] =
                   [ @ EXCEPT !.route_data = RouteResult(response),
                              !.osrm_response = Some(response),
                              !.route_cache_writes = @ + 1,
                              !.pc = "respond" ] ]
       ELSE /\ req' = [ req EXCEPT ![w] =
                   Answered([ @ EXCEPT !.osrm_response = Some(response) ],
                            "NoRoute") ]
            /\ UNCHANGED << route_cache, live_route >>
    /\ failure_log' = Logged(failure_log, req'[w])
    /\ UNCHANGED << geocode_cache, plan_cache, live_geocode, arrivals >>
    /\ UNCHANGED << plannerVars, cache_ok, asideVars >>

OsrmResponds(w) ==
    /\ req[w].pc = "get_route_http"
    /\ \E response \in OsrmResponses(req[w].start_coords[1],
                                     req[w].end_coords[1]) :
          OsrmAnswers(w, response)

\* post, from the return of plan_route_sync: the fuel stops, the response
\* and its copy in the cache
Respond(w) ==
    /\ req[w].pc = "respond"
    /\ plan_cache' = set_cache(plan_cache,
           PlanCacheKey(req[w].start, req[w].finish), ResponseData(req[w]))
    /\ req' = [ req EXCEPT ![w] =
           IF CacheRaises
           THEN [ @ EXCEPT !.pc = "done", !.cause = "CacheError",
                           !.response = Some(InternalServerError) ]
           ELSE [ @ EXCEPT !.pc = "done", !.cause = "planned",
                           !.plan_cache_writes = @ + 1,
                           !.response = Some(Ok200(ResponseData(req[w]))) ] ]
    /\ failure_log' = Logged(failure_log, req'[w])
    /\ UNCHANGED << geocode_cache, route_cache, live_geocode, live_route,
                    arrivals >>
    /\ UNCHANGED << plannerVars, cache_ok, asideVars >>

\* an entry of the cache reaches its time to live, or is evicted
ExpireGeocode(cache_key) ==
    /\ cache_key \in DOMAIN geocode_cache
    /\ geocode_cache' = Without(geocode_cache, cache_key)
    /\ live_geocode' =
           [ k \in { a \in DOMAIN live_geocode : KeyOfArgs[a] # cache_key }
               |-> live_geocode[k] ]
    /\ UNCHANGED << req, route_cache, plan_cache, live_route, failure_log,
                    arrivals >>
    /\ UNCHANGED << plannerVars, cache_ok, asideVars >>

ExpireRoute(cache_key) ==
    /\ cache_key \in DOMAIN route_cache
    /\ route_cache' = Without(route_cache, cache_key)
    /\ live_route' =
           [ k \in { a \in DOMAIN live_route :
                       RouteCacheKey(a[1], a[2]) # cache_key }
               |-> live_route[k] ]
    /\ UNCHANGED << req, geocode_cache, plan_cache, live_geocode, failure_log,
                    arrivals >>
    /\ UNCHANGED << plannerVars, cache_ok, asideVars >>

ExpirePlan(cache_key) ==
    /\ cache_key \in DOMAIN plan_cache
    /\ plan_cache' = Without(plan_cache, cache_key)
    /\ UNCHANGED << req, geocode_cache, route_cache, live_geocode, live_route,
                    failure_log, arrivals >>
    /\ UNCHANGED << plannerVars, cache_ok, asideVars >>

\* the planner is not part of these runs: its variables stay as constructed
PlannerAtRest ==
    /\ start_coords = NYC
    /\ end_coords = NYC
    /\ max_range = 500 * Kilo
    /\ mpg = 10
    /\ stations = << >>
    /\ fpc = "call"
    /\ total_distance = 0
    /\ stops_needed = 0
    /\ real_stations = << >>
    /\ loop_i = 0
    /\ current_pos = NYC
    /\ fuel_stops = << >>
    /\ total_cost = 0
    /\ plan = NoPlan

InitRoute == ServerStarted /\ PlannerAtRest /\ AsideAtRest

NextRoute ==
    \/ \E w \in DOMAIN req, body \in RequestBodies : Post(w, body[1], body[2])
    \/ \E w \in DOMAIN req : GeocodeLocation(w)
    \/ \E w \in DOMAIN req : NominatimResponds(w)
    \/ \E w \in DOMAIN req : GetRoute(w)
    \/ \E w \in DOMAIN req : OsrmResponds(w)
    \/ \E w \in DOMAIN req : Respond(w)
    \/ \E cache_key \in DOMAIN geocode_cache : ExpireGeocode(cache_key)
    \/ \E cache_key \in DOMAIN route_cache : ExpireRoute(cache_key)
    \/ \E cache_key \in DOMAIN plan_cache : ExpirePlan(cache_key)

SpecRoute == InitRoute /\ [][NextRoute]_vars

\* the cache backend stops answering, and answers again
CacheFails ==
    /\ cache_ok = TRUE
    /\ cache_ok' = FALSE
    /\ UNCHANGED << plannerVars, req, geocode_cache, route_cache, plan_cache,
                    live_geocode, live_route, failure_log, arrivals,
                    asideVars >>

CacheRecovers ==
    /\ ~cache_ok
    /\ cache_ok' = TRUE
    /\ UNCHANGED << plannerVars, req, geocode_cache, route_cache, plan_cache,
                    live_geocode, live_route, failure_log, arrivals,
                    asideVars >>

NextOutage == NextRoute \/ CacheFails \/ CacheRecovers

\* the web service with a cache backend that can fail at any moment
SpecOutage == InitRoute /\ [][NextOutage]_vars

(***************************************************************************)
(* Properties of the web service (checked under SpecRoute)                 *)
(***************************************************************************)
RoutePhases == { "get_route", "get_route_http", "respond" }

\* plan_route has the result of geocoding the start, resp. the finish
StartGeocoded(r) ==
    r.pc \notin { "idle", "geocode_start", "geocode_start_http" }
      /\ r.cause # "cached"

FinishGeocoded(r) == r.pc \in RoutePhases \cup { "done" } /\ r.cause # "cached"

\* one of the two results is None
GeocodingHasFailed(r) ==
    \/ StartGeocoded(r) /\ r.start_coords = None
    \/ FinishGeocoded(r) /\ r.end_coords = None

\* C7: when geocoding the start or the finish has failed, plan_route never
\* reaches get_route: the request sends nothing to the routing provider and
\* neither reads nor writes the route cache.
C7_NoRoutingAfterGeocodingFailure ==
    \A w \in DOMAIN req :
        GeocodingHasFailed(req[w]) =>
            /\ req[w].pc \notin RoutePhases
            /\ req[w].osrm_requests = 0
            /\ req[w].route_cache_reads = 0
            /\ req[w].route_cache_writes = 0

\* a request failed at the finish only, while a route was in the cache
C7_Witness ==
    \E w \in DOMAIN req :
        /\ req[w].pc = "done"
        /\ req[w].cause = "LocationNotFound"
        /\ req[w].start_coords # None
        /\ req[w].end_coords = None
        /\ DOMAIN route_cache # { }

\* C8: the caller can tell a failure of geocoding from a failure of the
\* route fetch: responses to failures of different causes differ.
C8_FailuresDistinguishable ==
    \A a \in failure_log, b \in failure_log :
        a.cause # b.cause => a.response # b.response

\* the text a request in geocode_location has to send to geocode_address
AddressOf(r) ==
    /\ r.pc \in { "geocode_start", "geocode_finish" }
    /\ ~Located[LocationOf(r)].literal
    /\ Located[LocationOf(r)].address

\* C9: once a live fetch has succeeded for the arguments of geocode_address
\* (resp. get_route) and until its cache entry expires, every call with the
\* same arguments sends no request to the provider and returns the value
\* that was fetched.
C9_CacheHits ==
    [][ \A w \in DOMAIN req :
          /\ ( /\ AddressOf(req[w])
               /\ Located[LocationOf(req[w])].args \in DOMAIN live_geocode
               /\ req'[w] # req[w] )
             => /\ req'[w].nominatim_requests = req[w].nominatim_requests
                /\ req'[w].pc \notin { "geocode_start_http",
                                       "geocode_finish_http" }
                /\ ( IF req[w].pc = "geocode_start"
                     THEN req'[w].start_coords ELSE req'[w].end_coords )
                   = Some(live_geocode[Located[LocationOf(req[w])].args])
          /\ ( /\ req[w].pc = "get_route"
               /\ << req[w].start_coords[1], req[w].end_coords[1] >>
                     \in DOMAIN live_route
               /\ req'[w] # req[w] )
             => /\ req'[w].osrm_requests = req[w].osrm_requests
                /\ req'[w].pc = "respond"
                /\ req'[w].route_data
                   = Some(live_route[<< req[w].start_coords[1],
                                        req[w].end_coords[1] >>])
      ]_vars

\* a request got both its points and its route without a provider request,
\* after an earlier request had fetched them
C9_Witness ==
    \E w \in DOMAIN req :
        /\ req[w].pc = "respond"
        /\ req[w].start = ZionIL
        /\ req[w].finish = RyeNY
        /\ req[w].nominatim_requests = 0
        /\ req[w].osrm_requests = 0
        /\ req[w].route_data # None

\* the response is a 2xx response with code "Ok" and a route
IsOkWithRoutes(response) ==
    /\ response.transport = "ok"
    /\ response.status \in 200..299
    /\ response.code = "Ok"
    /\ response.routes # << >>

\* C10: get_route returns a route only for a provider response with code
\* "Ok" and a non-empty list of routes; for "Ok" with no routes, any other
\* code, a transport error or a status other than 2xx it returns no route.
\* A route in the cache was returned for such a response too.
C10_RouteOnlyFromOkWithRoutes ==
    /\ \A w \in DOMAIN req :
          req[w].osrm_response # None =>
             IF IsOkWithRoutes(req[w].osrm_response[1])
             THEN /\ req[w].route_data # None
                  /\ req[w].route_data[1].geometry
                       = req[w].osrm_response[1].routes[1].geometry
                  /\ req[w].route_data[1].distance
                       = req[w].osrm_response[1].routes[1].distance
             ELSE /\ req[w].route_data = None
                  /\ req[w].pc = "done"
                  /\ req[w].cause = "NoRoute"
    /\ \A k \in DOMAIN route_cache :
          \E response \in OsrmResponses(<< k[1], k[2] >>, << k[3], k[4] >>) :
             /\ IsOkWithRoutes(response)
             /\ route_cache[k].geometry = response.routes[1].geometry

\* the provider answered "Ok" with no routes
C10_Witness ==
    \E w \in DOMAIN req :
        /\ req[w].osrm_response # None
        /\ req[w].osrm_response[1].status = 200
        /\ req[w].osrm_response[1].code = "Ok"
        /\ req[w].osrm_response[1].routes = << >>
        /\ req[w].pc = "done"

(***************************************************************************)
(* Properties of the web service when the cache backend can fail (checked  *)
(* under SpecOutage)                                                       *)
(***************************************************************************)
\* what geocode_address returned to the request r, after its response step
GeocodeReturned(r_before, r_after) ==
    IF r_before.pc = "geocode_start_http" THEN r_after.start_coords
    ELSE r_after.end_coords

\* the request has not been answered with an error of the server
NotAborted(r) == r.response = None \/ r.response[1].status # 500

\* C11: in geocode_address and get_route a failure of the cache backend
\* never reaches the caller: a lookup that fails is a miss and is followed
\* by a request to the provider, and after a write that fails the call still
\* returns what it fetched, as it does with an empty cache that works.
C11_CacheFailureAbsorbed ==
    [][ \A w \in DOMAIN req :
          ( CacheRaises /\ req'[w] # req[w] ) =>
             /\ AddressOf(req[w]) =>
                   /\ req'[w].pc \in { "geocode_start_http",
                                       "geocode_finish_http" }
                   /\ req'[w].nominatim_requests
                         = req[w].nominatim_requests + 1
             /\ req[w].pc = "get_route" =>
                   /\ req'[w].pc = "get_route_http"
                   /\ req'[w].osrm_requests = req[w].osrm_requests + 1
             /\ req[w].pc \in { "geocode_start_http", "geocode_finish_http" } =>
                   /\ GeocodeReturned(req[w], req'[w])
                         \in Located[LocationOf(req[w])].results
                   /\ NotAborted(req'[w])
                   /\ geocode_cache' = geocode_cache
             /\ req[w].pc = "get_route_http" =>
                   /\ req'[w].route_data = RouteResult(req'[w].osrm_response[1])
                   /\ NotAborted(req'[w])
                   /\ route_cache' = route_cache
      ]_vars

\* a request holds a point and a route it fetched while the backend did not
\* answer: neither is in the cache
C11_Witness ==
    \E w \in DOMAIN req :
        /\ req[w].pc = "respond"
        /\ req[w].nominatim_requests > 0
        /\ req[w].osrm_requests > 0
        /\ req[w].route_data # None
        /\ DOMAIN geocode_cache = { }
        /\ DOMAIN route_cache = { }
        /\ CacheRaises

\* C12: a failure of the cache backend on the read or on the write of the
\* cached plan never aborts the request: a request whose route was planned
\* is answered with the plan, as a success.
C12_PlanCacheFailureAbsorbed ==
    \A w \in DOMAIN req :
        ( req[w].pc = "done" /\ req[w].route_data # None ) =>
            /\ req[w].response[1].status = 200
            /\ req[w].response[1].data # None

(***************************************************************************)
(* GeocodingService.geocode_fuel_stations: a batch run.  The run is the    *)
(* only activity: time passes in asyncio.sleep only, every other step is   *)
(* taken to last no time.                                                  *)
(***************************************************************************)
\* the largest batch of the model
MaxBatch == 3

\* self.rate_limit_delay = 1.1 seconds, in tenths of a second
RateLimitDelay == 11

\* station k of the table: its address, and the point the provider knows
StationAddress(k) == << Digits[k + 1] >>
StationPoint(k) == << 40000 + k, -73000 >>

\* the cache key of geocode_address(station.address, station.city,
\* station.state), worked out once per station
StationKey ==
    [ k \in 1..(MaxBatch + 1) |->
        GeocodeCacheKey(StationAddress(k), << "R", "y", "e" >>, << "N", "Y" >>) ]

\* the stations of a batch: each geocoded already or not
Batches ==
    { [ k \in 1..MaxBatch |-> [ name |-> k, geocoded |-> g[k] ] ] :
        g \in [ 1..MaxBatch -> BOOLEAN ] }

\* the cache with the points of the stations of a set in it
CacheOf(cached) == [ key \in { StationKey[k] : k \in cached } |->
                       StationPoint(CHOOSE k \in cached : StationKey[k] = key) ]

InitBatch ==
    /\ PlannerAtRest
    /\ req = [ w \in Workers |-> IdleRequest ]
    /\ geocode_cache \in { CacheOf(cached) : cached \in SUBSET (1..MaxBatch) }
    /\ route_cache = EmptyCache
    /\ plan_cache = EmptyCache
    /\ live_geocode = EmptyCache
    /\ live_route = EmptyCache
    /\ failure_log = { }
    /\ cache_ok = TRUE
    /\ arrivals = 0
    /\ batch_pc = "call"
    /\ batch_stations \in Batches
    /\ stations_to_geocode = << >>
    /\ batch_i = 0
    /\ geocoded_stations = << >>
    /\ clock = 0
    /\ timeline = << >>
    /\ call = NoCall
    /\ returned = None
    /\ CommandAtRest

\* [s for s in stations if not s.geocoded]
RECURSIVE NotGeocoded(_)
NotGeocoded(stations_) ==
    IF stations_ = << >> THEN << >>
    ELSE IF Head(stations_).geocoded THEN NotGeocoded(Tail(stations_))
    ELSE << Head(stations_) >> \o NotGeocoded(Tail(stations_))

Event(kind, station) == [ kind |-> kind, station |-> station, at |-> clock ]

\* lines 74-79: the stations to geocode, and the return when there are none
BatchStart ==
    /\ batch_pc = "call"
    /\ stations_to_geocode' = NotGeocoded(batch_stations)
    /\ IF stations_to_geocode' = << >>
       THEN /\ batch_pc' = "returned"
            /\ geocoded_stations' = batch_stations
       ELSE /\ batch_pc' = "loop"
            /\ geocoded_stations' = << >>
    /\ UNCHANGED << batch_stations, batch_i, clock, timeline, callVars,
                    commandVars,
                    plannerVars, routeVars >>

\* lines 81-104: one iteration of the loop.  geocode_address answers from
\* the cache or sends one request, which finds the point or does not;
\* station.save() is called when there is a point, and succeeds (saved) or
\* raises; the delay follows unless this is the last station or the except
\* clause was entered.
BatchIter ==
    /\ batch_pc = "loop"
    /\ batch_i < Len(stations_to_geocode)
    /\ LET station == stations_to_geocode[batch_i + 1]
           cached == get_from_cache(geocode_cache, StationKey[station.name])
           last == batch_i >= Len(stations_to_geocode) - 1
       IN  IF cached # None
           THEN \* geocode_address returns the cached point: no request
                \E saved \in BOOLEAN :
                   /\ geocode_cache' = geocode_cache
                   /\ geocoded_stations' = Append(geocoded_stations,
                         [ station EXCEPT !.geocoded = TRUE ])
                   /\ timeline' = timeline \o << Event("hit", batch_i) >> \o
                         (IF saved /\ ~last
                          THEN << Event("sleep", batch_i) >> ELSE << >>)
                   /\ clock' = IF saved /\ ~last
                               THEN clock + RateLimitDelay ELSE clock
           ELSE \* one request; the point is found or it is not
                \E fetched \in { Some(StationPoint(station.name)), None },
                   saved \in BOOLEAN :
                   /\ fetched = None => saved
                   /\ geocode_cache' =
                         IF fetched # None
                         THEN set_cache(geocode_cache,
                                        StationKey[station.name], fetched[1])
                         ELSE geocode_cache
                   /\ geocoded_stations' = Append(geocoded_stations,
                         [ station EXCEPT !.geocoded = (fetched # None) ])
                   /\ timeline' = timeline \o << Event("request", batch_i) >> \o
                         (IF saved /\ ~last
                          THEN << Event("sleep", batch_i) >> ELSE << >>)
                   /\ clock' = IF saved /\ ~last
                               THEN clock + RateLimitDelay ELSE clock
    /\ batch_i' = batch_i + 1
    /\ UNCHANGED << batch_pc, batch_stations, stations_to_geocode, callVars,
                    commandVars,
                    plannerVars, req, route_cache, plan_cache, live_geocode,
                    live_route, failure_log, arrivals, cache_ok >>

\* line 106: the loop is over
BatchReturn ==
    /\ batch_pc = "loop"
    /\ batch_i >= Len(stations_to_geocode)
    /\ batch_pc' = "returned"
    /\ UNCHANGED << batch_stations, stations_to_geocode, batch_i,
                    geocoded_stations, clock, timeline, callVars, plannerVars,
                    commandVars,
                    routeVars >>

NextBatch == BatchStart \/ BatchIter \/ BatchReturn

SpecBatch == InitBatch /\ [][NextBatch]_vars

(***************************************************************************)
(* Properties of geocode_fuel_stations                                     *)
(***************************************************************************)
\* the positions of the timeline at which a request went to the provider
Requests == { n \in DOMAIN timeline : timeline[n].kind = "request" }

\* C13: in a batch the provider requests go out one at a time in the order
\* of the batch, and at least 1.1 seconds pass between two consecutive
\* ones, whatever became of the earlier station (found, not found, error
\* while saving).
C13_RequestsSpaced ==
    \A m \in Requests : \A n \in Requests :
        m < n => /\ timeline[m].station < timeline[n].station
                 /\ timeline[n].at - timeline[m].at >= RateLimitDelay

\* C14: a station served from the geocode cache is followed by no
\* rate-limit delay; the delay follows only stations that caused a request
\* to the provider.
C14_NoDelayAfterCacheHit ==
    \A n \in DOMAIN timeline :
        (timeline[n].kind = "sleep" /\ n > 1) => timeline[n - 1].kind = "request"

(***************************************************************************)
(* Requests to the providers                                               *)
(***************************************************************************)
\* the invocations of geocode_address a request has begun: one for the
\* start and one for the finish, when the location is an address
GeocodeInvocations(r) ==
    (IF Located[r.start].address /\ ~Located[r.start].literal
        /\ (StartGeocoded(r) \/ r.pc = "geocode_start_http")
     THEN 1 ELSE 0)
    + (IF Located[r.finish].address /\ ~Located[r.finish].literal
          /\ (FinishGeocoded(r) \/ r.pc = "geocode_finish_http")
       THEN 1 ELSE 0)

\* the invocations of get_route a request has begun
RouteInvocations(r) ==
    IF r.pc \in { "get_route_http", "respond" }
       \/ (r.pc = "done" /\ r.cause \in { "NoRoute", "planned" })
    THEN 1 ELSE 0

\* C15: an invocation of geocode_address sends at most one request to the
\* geocoding provider and an invocation of get_route at most one to the
\* routing provider, whatever the outcome; nothing is sent again.
C15_AtMostOneRequest ==
    \A w \in DOMAIN req :
        /\ req[w].pc # "idle" =>
              req[w].nominatim_requests <= GeocodeInvocations(req[w])
        /\ req[w].osrm_requests <= RouteInvocations(req[w])

\* a request whose two addresses were each asked for once and whose route
\* fetch failed after one request
C15_Witness ==
    \E w \in DOMAIN req :
        /\ req[w].pc = "done"
        /\ req[w].cause = "NoRoute"
        /\ req[w].nominatim_requests = 2
        /\ req[w].osrm_requests = 1

(***************************************************************************)
(* RoutePlanningService.geocode_location, called on its own with a text    *)
(***************************************************************************)
\* the parts the texts are made of
TextParts ==
    { << "4", "0", ".", "9", "8" >>, << "-", "7", "3", ".", "6", "8" >>,
      << " ", "9", "1" >>, << "-", "1", "8", "1" >>, << "0" >>,
      << "R", "y", "e" >>, << " ", "N", "Y" >>, << >> }

\* one part, two parts or three
Texts ==
    TextParts
      \cup { a \o << "," >> \o b : a \in TextParts, b \in TextParts }
      \cup { a \o << ",", "0", "," >> \o b : a \in TextParts, b \in TextParts }

InitText ==
    /\ cache_ok = TRUE
    /\ PlannerAtRest
    /\ req = [ w \in Workers |-> IdleRequest ]
    /\ geocode_cache \in
          { EmptyCache,
            set_cache(EmptyCache,
                      GeocodeCacheKey(<< >>, << "R", "y", "e" >>, << "N", "Y" >>),
                      << 40980, -73680 >>) }
    /\ route_cache = EmptyCache
    /\ plan_cache = EmptyCache
    /\ live_geocode = EmptyCache
    /\ live_route = EmptyCache
    /\ failure_log = { }
    /\ arrivals = 0
    /\ batch_pc = "call"
    /\ batch_stations = << >>
    /\ stations_to_geocode = << >>
    /\ batch_i = 0
    /\ geocoded_stations = << >>
    /\ clock = 0
    /\ timeline = << >>
    /\ call \in { [ fn |-> "geocode_location", args |-> << location >> ] :
                    location \in Texts }
    /\ returned = None
    /\ CommandAtRest

\* routing.py 72-98: the coordinates of the text, the call of
\* geocode_address, or None
GeocodeLocationCall ==
    /\ call.fn = "geocode_location"
    /\ IF IsLiteral(call.args[1])
       THEN /\ returned' = Some(LiteralCoords(call.args[1]))
            /\ call' = [ call EXCEPT !.fn = "return" ]
       ELSE IF IsAddress(call.args[1])
       THEN /\ returned' = returned
            /\ call' = [ call EXCEPT !.fn = "geocode_address" ]
       ELSE /\ returned' = None
            /\ call' = [ call EXCEPT !.fn = "return" ]
    /\ UNCHANGED << plannerVars, routeVars, batchVars, commandVars >>

\* geocoding.py 23-67: geocode_address("", city, state) for the text
GeocodeAddressCall ==
    /\ call.fn = "geocode_address"
    /\ LET city == City(call.args[1])
           state == State(call.args[1])
           cache_key == GeocodeCacheKey(<< >>, city, state)
           cached_result == get_from_cache(geocode_cache, cache_key)
       IN  IF cached_result # None
           THEN /\ returned' = cached_result
                /\ timeline' = << Event("cache_get", 0) >>
                /\ geocode_cache' = geocode_cache
           ELSE \E response \in NominatimResponses(GeocodeQuery(<< >>, city, state)) :
                   /\ returned' = GeocodeResult(response)
                   /\ timeline' = << Event("cache_get", 0), Event("request", 0) >>
                   /\ geocode_cache' =
                         IF GeocodeResult(response) # None
                         THEN set_cache(geocode_cache, cache_key,
                                        GeocodeResult(response)[1])
                         ELSE geocode_cache
    /\ call' = [ call EXCEPT !.fn = "return" ]
    /\ UNCHANGED << plannerVars, req, route_cache, plan_cache, live_geocode,
                    live_route, failure_log, arrivals, cache_ok, batch_pc,
                    batch_stations, stations_to_geocode, batch_i,
                    geocoded_stations, clock, commandVars >>

NextText == GeocodeLocationCall \/ GeocodeAddressCall

SpecText == InitText /\ [][NextText]_vars

\* the text is two parts around one comma, each of which float() accepts
TwoNumbers(location) ==
    /\ Len(Split(location)) = 2
    /\ \A n \in 1..2 : IsFloat(Split(location)[n])

\* C16: for a text "lat,lon" whose two parts parse as numbers,
\* geocode_location returns (lat, lon) itself: it does not look into the
\* geocode cache and sends nothing to the provider.
C16_LiteralReturnedDirectly ==
    (call.fn # "geocode_location" /\ TwoNumbers(call.args[1])) =>
        /\ call.fn = "return"
        /\ returned = Some(<< FloatValue(Split(call.args[1])[1]),
                              FloatValue(Split(call.args[1])[2]) >>)
        /\ timeline = << >>

\* "40.98,-73.68" was returned as (40.98, -73.68) although the cache holds
\* an entry
C16_Witness ==
    /\ call.fn = "return"
    /\ call.args[1] = << "4", "0", ".", "9", "8", ",", "-", "7", "3", ".", "6", "8" >>
    /\ returned = Some(<< 40980, -73680 >>)
    /\ geocode_cache # EmptyCache
    /\ timeline = << >>

\* C17: a text "lat,lon" whose latitude is outside [-90, 90] or whose
\* longitude is outside [-180, 180] is rejected: it is never returned as a
\* coordinate.
C17_OutOfRangeRejected ==
    (/\ call.fn = "return"
     /\ TwoNumbers(call.args[1])
     /\ \/ Abs(FloatValue(Split(call.args[1])[1])) > 90 * Kilo
        \/ Abs(FloatValue(Split(call.args[1])[2])) > 180 * Kilo)
        => returned = None

(***************************************************************************)
(* The key of the geocode cache: geocode_address called for one place      *)
(* written in two ways, one call after the other                           *)
(***************************************************************************)
\* ways of writing the city of an address
CityTexts ==
    { << "N", "e", "w", " ", "Y", "o", "r", "k" >>,
      << "n", "e", "w", " ", "y", "o", "r", "k" >>,
      << "N", "E", "W", " ", "Y", "O", "R", "K" >>,
      << "N", "e", "w", " ", " ", "Y", "o", "r", "k" >>,
      << "n", "e", "w", " ", " ", " ", "y", "o", "r", "k" >>,
      << "N", "e", "w", "Y", "o", "r", "k" >>,
      << "N", "e", "w", "_", "Y", "o", "r", "k" >>,
      << "Y", "o", "r", "k" >>,
      << "y", "o", "r", "k" >> }

InitKey ==
    /\ cache_ok = TRUE
    /\ PlannerAtRest
    /\ req = [ w \in Workers |-> IdleRequest ]
    /\ geocode_cache = EmptyCache
    /\ route_cache = EmptyCache
    /\ plan_cache = EmptyCache
    /\ live_geocode = EmptyCache
    /\ live_route = EmptyCache
    /\ failure_log = { }
    /\ arrivals = 0
    /\ batch_pc = "call"
    /\ batch_stations = << >>
    /\ stations_to_geocode = << >>
    /\ batch_i = 0
    /\ geocoded_stations = << >>
    /\ clock = 0
    /\ timeline = << >>
    /\ call \in { [ fn |-> "first", args |-> << first, second >> ] :
                    first \in CityTexts, second \in CityTexts }
    /\ returned = None
    /\ CommandAtRest

\* the first call: a miss, a request that finds the place, and the entry
\* written under the key of the first text (lines 29-62)
FirstGeocodeAddress ==
    /\ call.fn = "first"
    /\ geocode_cache' = set_cache(geocode_cache,
          GeocodeCacheKey(<< >>, call.args[1], << "N", "Y" >>), NYC)
    /\ call' = [ call EXCEPT !.fn = "second" ]
    /\ UNCHANGED << plannerVars, req, route_cache, plan_cache, live_geocode,
                    live_route, failure_log, arrivals, cache_ok, batchVars,
                    commandVars,
                    returned >>

\* the second call, up to its lookup (lines 29-34)
SecondGeocodeAddress ==
    /\ call.fn = "second"
    /\ returned' = get_from_cache(geocode_cache,
          GeocodeCacheKey(<< >>, call.args[2], << "N", "Y" >>))
    /\ call' = [ call EXCEPT !.fn = "return" ]
    /\ UNCHANGED << plannerVars, routeVars, batchVars, commandVars >>

NextKey == FirstGeocodeAddress \/ SecondGeocodeAddress

SpecKey == InitKey /\ [][NextKey]_vars

\* the text with every run of spaces made one space
RECURSIVE SingleSpaced(_)
SingleSpaced(t) ==
    IF Len(t) < 2 THEN t
    ELSE IF t[1] = " " /\ t[2] = " " THEN SingleSpaced(Tail(t))
    ELSE << t[1] >> \o SingleSpaced(Tail(t))

\* the two texts differ in the case of letters only, resp. in the length of
\* their runs of spaces only
DifferInCaseOnly(a, b) == a # b /\ Lower(a) = Lower(b)
DifferInSpacesOnly(a, b) == a # b /\ SingleSpaced(a) = SingleSpaced(b)

\* C18: inputs that differ only in the case of letters, or only in the
\* amount of whitespace, have the same key in the geocode cache: the second
\* is served from the entry of the first.
C18_KeyNormalized ==
    (/\ call.fn = "return"
     /\ \/ DifferInCaseOnly(call.args[1], call.args[2])
        \/ DifferInSpacesOnly(call.args[1], call.args[2]))
        => returned # None

(***************************************************************************)
(* utils.decode_polyline and interpolate_point, called on their own.       *)
(* A polyline is the sequence of the codes (ord) of its characters; a      *)
(* coordinate of a point to encode is a whole number of 1e-5 degrees.      *)
(***************************************************************************)
\* the longest sequence of points of the model
MaxPoints == 3

\* the points encoded, << latitude, longitude >> in 1e-5 degrees
PolylinePoints ==
    { << 0, 0 >>, << 1, -1 >>, << 3850000, -12020000 >>,
      << 4070000, -12095000 >>, << -3387000, 15121000 >> }

PointSequences ==
    UNION { [ 1..n -> PolylinePoints ] : n \in 0..MaxPoints }

\* the encoded polyline algorithm format: the characters of one number,
\* five bits at a time from the low end
RECURSIVE EncodeChunks(_)
EncodeChunks(v) ==
    IF v >= 32 THEN << (32 + (v % 32)) + 63 >> \o EncodeChunks(v \div 32)
    ELSE << v + 63 >>

\* a signed number: shifted left by one bit, inverted when negative
EncodeNumber(d) == EncodeChunks(IF d < 0 THEN -(2 * d) - 1 ELSE 2 * d)

\* each point as the difference from the point before, latitude first
RECURSIVE EncodeFrom(_, _, _)
EncodeFrom(coords, lat, lng) ==
    IF coords = << >> THEN << >>
    ELSE EncodeNumber(coords[1][1] - lat) \o EncodeNumber(coords[1][2] - lng)
           \o EncodeFrom(Tail(coords), coords[1][1], coords[1][2])

EncodePolyline(coords) == EncodeFrom(coords, 0, 0)

Pow2[n \in Nat] == IF n = 0 THEN 1 ELSE 2 * Pow2[n - 1]

\* lines 33-39: the inner loop.  b & 0x1f is b % 32 for the b >= 0 of a
\* polyline, and `|=` adds, the bits being apart
RECURSIVE ReadChunks(_, _, _, _)
ReadChunks(polyline, index, shift, result) ==
    IF polyline[index] - 63 < 32
    THEN [ result |-> result + ((polyline[index] - 63) % 32) * Pow2[shift],
           index |-> index + 1 ]
    ELSE ReadChunks(polyline, index + 1, shift + 5,
                    result + ((polyline[index] - 63) % 32) * Pow2[shift])

\* lines 41-45: ~(result >> 1) when the low bit is set, result >> 1 otherwise
SignedOf(result) ==
    IF result % 2 = 1 THEN -(result \div 2) - 1 ELSE result \div 2

\* lines 27-73: the outer loop from index on
RECURSIVE DecodeFrom(_, _, _, _)
DecodeFrom(polyline, index, lat, lng) ==
    IF index > Len(polyline) THEN << >>
    ELSE LET first == ReadChunks(polyline, index, 0, 0)
             second == ReadChunks(polyline, first.index, 0, 0)
         IN  << << lng + SignedOf(second.result),
                   lat + SignedOf(first.result) >> >>
               \o DecodeFrom(polyline, second.index,
                             lat + SignedOf(first.result),
                             lng + SignedOf(second.result))

decode_polyline(polyline) ==
    IF polyline = << >> THEN << >> ELSE DecodeFrom(polyline, 1, 0, 0)

\* The floats of interpolate_point, with a significand of MantissaBits bits
\* in place of the 53 of a Python float: a number is a whole number of
\* units, and the result of each operation is rounded to the nearest number
\* that has no more than MantissaBits significant bits (to the even one of
\* two equally near).
MantissaBits == 4

BitLength[n \in Nat] == IF n = 0 THEN 0 ELSE 1 + BitLength[n \div 2]

RoundFloat[x \in Int] ==
    IF BitLength[Abs(x)] <= MantissaBits THEN x
    ELSE LET unit == Pow2[BitLength[Abs(x)] - MantissaBits]
             quotient == Abs(x) \div unit
             rest == Abs(x) % unit
         IN  IF 2 * rest > unit \/ (2 * rest = unit /\ quotient % 2 = 1)
             THEN Sign(x) * (quotient + 1) * unit
             ELSE Sign(x) * quotient * unit

\* lines 50-51 in these floats: lat1 + (lat2 - lat1) * ratio, the ratio in
\* halves (0, 1/2, 1); the numbers are even, so that the half of one is whole
interpolate_point_float(start, end, ratio) ==
    << RoundFloat[start[1]
          + RoundFloat[(RoundFloat[end[1] - start[1]] * ratio) \div 2]],
       RoundFloat[start[2]
          + RoundFloat[(RoundFloat[end[2] - start[2]] * ratio) \div 2]] >>

\* points whose coordinates are floats of four bits, << lat, lon >>
FloatPoints == { << 2, 240 >>, << 48, -22 >>, << -6, 0 >>, << 30, 28 >> }

\* the ratios 0, 1/2 and 1
HalfRatios == { 0, 1, 2 }

InitUtils ==
    /\ ServerStarted
    /\ PlannerAtRest
    /\ batch_pc = "call"
    /\ batch_stations = << >>
    /\ stations_to_geocode = << >>
    /\ batch_i = 0
    /\ geocoded_stations = << >>
    /\ clock = 0
    /\ timeline = << >>
    /\ call \in
          { [ fn |-> "decode_polyline", args |-> << coords >> ] :
              coords \in PointSequences }
            \cup { [ fn |-> "calculate_distance", args |-> << a, b >> ] :
                     a \in Points, b \in Points }
            \cup { [ fn |-> "interpolate_point", args |-> << a, b, ratio >> ] :
                     a \in FloatPoints, b \in FloatPoints,
                     ratio \in HalfRatios }
    /\ returned = None
    /\ CommandAtRest

\* decode_polyline(the encoding of the points of the call)
DecodePolylineCall ==
    /\ call.fn = "decode_polyline"
    /\ returned' = Some(decode_polyline(EncodePolyline(call.args[1])))
    /\ call' = [ call EXCEPT !.fn = "decode_polyline returned" ]
    /\ UNCHANGED << plannerVars, routeVars, batchVars, commandVars >>

InterpolatePointCall ==
    /\ call.fn = "interpolate_point"
    /\ returned' = Some(interpolate_point_float(call.args[1], call.args[2],
                                                call.args[3]))
    /\ call' = [ call EXCEPT !.fn = "interpolate_point returned" ]
    /\ UNCHANGED << plannerVars, routeVars, batchVars, commandVars >>

CalculateDistanceCall ==
    /\ call.fn = "calculate_distance"
    /\ returned' = Some(calculate_distance(call.args[1], call.args[2]))
    /\ call' = [ call EXCEPT !.fn = "calculate_distance returned" ]
    /\ UNCHANGED << plannerVars, routeVars, batchVars, commandVars >>

NextUtils ==
    DecodePolylineCall \/ InterpolatePointCall \/ CalculateDistanceCall

SpecUtils == InitUtils /\ [][NextUtils]_vars

\* the number n, read as degrees, is within 1e-5 degrees of c, a number of
\* 1e-5 degrees (beyond 20000 degrees it is not, and the product is not
\* taken)
WithinE5(n, c) == Abs(n) <= 20000 /\ Abs(n * 100000 - c) <= 1

\* C19: decode_polyline of the standard encoding of a sequence of points
\* returns the sequence: as many points, in the same order, each as
\* (latitude, longitude) in degrees within 1e-5 of the one encoded; the empty
\* text for the empty sequence.
C19_DecodeInvertsEncode ==
    call.fn = "decode_polyline returned" =>
        /\ Len(returned[1]) = Len(call.args[1])
        /\ \A n \in 1..Len(call.args[1]) :
              /\ WithinE5(returned[1][n][1], call.args[1][n][1])
              /\ WithinE5(returned[1][n][2], call.args[1][n][2])

\* the value between the two others, ends included
Between(x, a, b) == (a <= x /\ x <= b) \/ (b <= x /\ x <= a)

\* C20: interpolate_point(a, b, 0) is a, interpolate_point(a, b, 1) is b,
\* and for a ratio in [0, 1] each coordinate of the result lies between
\* that of a and that of b.
C20_InterpolateWithinEnds ==
    call.fn = "interpolate_point returned" =>
        /\ call.args[3] = 0 => returned[1] = call.args[1]
        /\ call.args[3] = 2 => returned[1] = call.args[2]
        /\ Between(returned[1][1], call.args[1][1], call.args[2][1])
        /\ Between(returned[1][2], call.args[1][2], call.args[2][2])

\* C21: calculate_distance(a, b) equals calculate_distance(b, a), and
\* calculate_distance(a, a) is 0, for all points a and b.
C21_DistanceSymmetric ==
    call.fn = "calculate_distance returned" =>
        /\ returned[1] = calculate_distance(call.args[2], call.args[1])
        /\ call.args[1] = call.args[2] => returned[1] = 0

\* the distance from New York to Sydney, which is not 0
C21_Witness ==
    /\ call.fn = "calculate_distance returned"
    /\ call.args = << NYC, SYD >>
    /\ returned[1] > 9000 * Kilo
    /\ returned[1] = calculate_distance(SYD, NYC)

(***************************************************************************)
(* What a request that fails has written                                   *)
(***************************************************************************)
\* plan_route returned None: a location was not found, or no route was
\* fetched
Failed(r) == r.pc = "done" /\ r.cause \in { "LocationNotFound", "NoRoute" }

\* the locations of the request that geocode_location resolved
Resolved(r) ==
    (IF r.start_coords # None THEN 1 ELSE 0)
      + (IF r.end_coords # None THEN 1 ELSE 0)

PlanPosition(i) ==
    IF i = 0 THEN start_coords
    ELSE IF i > Len(plan.fuel_stops) THEN end_coords
    ELSE << plan.fuel_stops[i].latitude, plan.fuel_stops[i].longitude >>

\* C24: in a plan returned for maxRange > 0 no leg is longer than maxRange
\* (origin to first stop, stop to stop, last stop to destination), and the
\* stops follow one another along the segment, strictly between origin and
\* destination.
C24_NoLegExceedsRange ==
    (Planned /\ ValidConfig) =>
        /\ \A i \in 1..(Len(plan.fuel_stops) + 1) :
              calculate_distance(PlanPosition(i - 1), PlanPosition(i))
                  <= max_range
        /\ \A i \in 1..Len(plan.fuel_stops) :
              /\ PlanPosition(i) # PlanPosition(i - 1)
              /\ PlanPosition(i) # end_coords
              /\ Between(PlanPosition(i)[1], PlanPosition(i - 1)[1], end_coords[1])
              /\ Between(PlanPosition(i)[2], PlanPosition(i - 1)[2], end_coords[2])

\* C27: in every plan, with stops or without, the total fuel of the summary
\* is totalDistance / mpg (reported rounded to two decimals).
C27_TotalFuelIsDistanceOverMpg ==
    (Planned /\ ValidConfig) =>
        Abs(plan.summary.total_fuel_gallons * mpg - TotalDistance)
            <= RoundingTolerance + 6 * mpg

(***************************************************************************)
(* The management command geocode_stations                                 *)
(***************************************************************************)
\* the largest FuelStation table, limit and batch size of a run
MaxStore == 4

Least(a, b) == IF a <= b THEN a ELSE b

\* qs[from_:to]: the rows from_ .. to - 1 (0-based) of the rows the query
\* gives when it is run
Rows(rows, from_, to) ==
    IF from_ >= Least(to, Len(rows)) THEN << >>
    ELSE SubSeq(rows, from_ + 1, Least(to, Len(rows)))

\* FuelStation.objects.filter(geocoded=False)[:limit], run now
StationsToGeocode == Rows(NotGeocoded(store), 0, limit)

InitCommand ==
    /\ ServerStarted
    /\ PlannerAtRest
    /\ batch_pc = "call"
    /\ batch_stations = << >>
    /\ stations_to_geocode = << >>
    /\ batch_i = 0
    /\ geocoded_stations = << >>
    /\ clock = 0
    /\ timeline = << >>
    /\ call = NoCall
    /\ returned = None
    /\ command_pc = "call"
    /\ limit \in 1..MaxStore
    /\ batch_size \in 1..MaxStore
    /\ store \in { [ k \in 1..n |-> [ name |-> k, geocoded |-> FALSE ] ] :
                     n \in 0..MaxStore }
    /\ total_stations = 0
    /\ offset = 0
    /\ submitted = << >>

\* lines 30-42: the query is made, and counted
CommandCount ==
    /\ command_pc = "call"
    /\ total_stations' = Len(StationsToGeocode)
    /\ command_pc' = IF total_stations' = 0 THEN "done" ELSE "loop"
    /\ UNCHANGED << limit, batch_size, store, offset, submitted,
                    plannerVars, routeVars, batchVars, callVars >>

\* lines 49-65: one batch.  The slice of the query is run when list(batch)
\* reads it; geocode_fuel_stations is given each station of it once, and
\* the stations it finds are saved as geocoded.
CommandBatch ==
    /\ command_pc = "loop"
    /\ offset < total_stations
    /\ \E found \in SUBSET { station.name :
              station \in { Rows(StationsToGeocode, offset, offset + batch_size)[n] :
                   n \in 1..Len(Rows(StationsToGeocode, offset,
                                     offset + batch_size)) } } :
          store' = [ k \in DOMAIN store |->
                       IF store[k].name \in found
                       THEN [ store[k] EXCEPT !.geocoded = TRUE ]
                       ELSE store[k] ]
    /\ submitted' = submitted \o
          [ n \in 1..Len(Rows(StationsToGeocode, offset, offset + batch_size)) |->
              Rows(StationsToGeocode, offset, offset + batch_size)[n].name ]
    /\ offset' = offset + batch_size
    /\ UNCHANGED << command_pc, limit, batch_size, total_stations,
                    plannerVars, routeVars, batchVars, callVars >>

\* lines 67-74: the loop is over
CommandDone ==
    /\ command_pc = "loop"
    /\ offset >= total_stations
    /\ command_pc' = "done"
    /\ UNCHANGED << limit, batch_size, store, total_stations, offset,
                    submitted, plannerVars, routeVars, batchVars, callVars >>

NextCommand == CommandCount \/ CommandBatch \/ CommandDone

SpecCommand == InitCommand /\ [][NextCommand]_vars

\* C28: in a run with N stations not yet geocoded and limit L, each of the
\* first min(N, L) of them is given to the geocoding exactly once, whatever
\* the batch size and whatever earlier batches saved as geocoded.
C28_EachStationSubmittedOnce ==
    command_pc = "done" =>
        \A k \in 1..Least(Len(store), limit) :
            Cardinality({ n \in DOMAIN submitted : submitted[n] = k }) = 1

(***************************************************************************)
(* What the caches hold                                                    *)
(***************************************************************************)
\* the points of the places the geocoding provider knows
GazetteerPoints == { << FloatValue(p.lat), FloatValue(p.lon) >> : p \in Gazetteer }

\* C25: every entry of the geocode cache, of the route cache and of the plan
\* cache is a successful result; a failed geocode, a failed route fetch and
\* an error response (400 or 500) are never cached, so that the key of a
\* failed request has no entry when the same request comes again.
C25_OnlySuccessesCached ==
    /\ \A k \in DOMAIN geocode_cache : geocode_cache[k] \in GazetteerPoints
    /\ \A k \in DOMAIN route_cache :
          route_cache[k] = OsrmRoute(<< k[1], k[2] >>, << k[3], k[4] >>)
    /\ \A k \in DOMAIN plan_cache :
          /\ plan_cache[k].geometry =
                << plan_cache[k].start_coords, plan_cache[k].end_coords >>
          /\ plan_cache[k].distance_meters =
                OsrmRoute(plan_cache[k].start_coords,
                          plan_cache[k].end_coords).distance
          /\ PlanCacheKey(plan_cache[k].start, plan_cache[k].finish) = k
    /\ \A w \in DOMAIN req :
          (req[w].pc = "done" /\ req[w].cause \in { "LocationNotFound", "NoRoute" })
              => PlanCacheKey(req[w].start, req[w].finish) \notin DOMAIN plan_cache

\* a 400 and a 500 have been answered, and the three caches hold the
\* results of a request that succeeded before
C25_Witness ==
    /\ \E f \in failure_log : f.response.status = 400
    /\ \E f \in failure_log : f.response.status = 500
    /\ geocode_cache # EmptyCache
    /\ route_cache # EmptyCache
    /\ plan_cache # EmptyCache
    /\ \E w \in DOMAIN req : req[w].pc = "done" /\ req[w].response[1].status # 200


(***************************************************************************)
(* Two requests at the same time: two workers of the server, each with one *)
(* request, the caches empty at first, and providers that answer every     *)
(* request with what they know.                                            *)
(***************************************************************************)
PairWorkers == { 1, 2 }

InitPair ==
    /\ req = [ w \in PairWorkers |-> IdleRequest ]
    /\ geocode_cache = EmptyCache
    /\ route_cache = EmptyCache
    /\ plan_cache = EmptyCache
    /\ live_geocode = EmptyCache
    /\ live_route = EmptyCache
    /\ failure_log = { }
    /\ cache_ok = TRUE
    /\ arrivals = 0
    /\ PlannerAtRest
    /\ AsideAtRest

\* the provider of routes answers "Ok" with the route it knows
OsrmOk(start, end) ==
    [ transport |-> "ok", status |-> 200, code |-> "Ok",
      routes |-> << OsrmRoute(start, end) >> ]

NextPair ==
    \/ \E w \in DOMAIN req, body \in PairBodies :
          req[w].pc = "idle" /\ Post(w, body[1], body[2])
    \/ \E w \in DOMAIN req : GeocodeLocation(w)
    \/ \E w \in DOMAIN req :
          /\ req[w].pc \in { "geocode_start_http", "geocode_finish_http" }
          /\ NominatimAnswers(w, Located[LocationOf(req[w])].found)
    \/ \E w \in DOMAIN req :
          /\ req[w].pc = "get_route_http"
          /\ OsrmAnswers(w, OsrmOk(req[w].start_coords[1],
                                   req[w].end_coords[1]))
    \/ \E w \in DOMAIN req : GetRoute(w)
    \/ \E w \in DOMAIN req : Respond(w)

SpecPair == InitPair /\ [][NextPair]_vars

\* a request that was answered
Answer(w) == req[w].pc = "done"

\* C26: a plan that is answered from the cache is the plan of the (start,
\* finish) pair of the request: two requests with different pairs never read
\* the same entry of the plan cache, also when the texts contain ":"
C26_CachedPlanIsOfThePair ==
    \A w \in DOMAIN req :
        (Answer(w) /\ req[w].cause = "cached")
            => /\ req[w].response[1].data[1].start = req[w].start
               /\ req[w].response[1].data[1].finish = req[w].finish

\* the coordinates of a location when every request to the provider is
\* answered with what the provider knows
Coords(location) ==
    IF Located[location].literal THEN Located[location].coords
    ELSE IF Located[location].address THEN Located[location].found
    ELSE None

\* the response to the request (start, finish) when it is the only one
AloneResponse(start, finish) ==
    IF GeocodingFailed(Coords(start), Coords(finish)) THEN CouldNotPlan
    ELSE Ok200(ResponseData(
             [ start |-> start, finish |-> finish,
               start_coords |-> Coords(start), end_coords |-> Coords(finish),
               route_data |-> RouteResult(OsrmOk(Coords(start)[1],
                                                 Coords(finish)[1])) ]))

\* C23: however the steps of two requests at the same time are interleaved,
\* each is answered with the response it gets when it is the only request
C23_AnsweredAsAlone ==
    \A w \in DOMAIN req :
        Answer(w) => req[w].response[1] = AloneResponse(req[w].start,
                                                        req[w].finish)

====
